---- MODULE Spec2Model ----
(***************************************************************************)
(* Two-phase handwriting-OCR capture pipeline of make-real:                *)
(*   - the useHandwritingOCR hook (app/hooks/useHandwritingOCR.ts): the    *)
(*     React state, initializeOCR, processSelectedShapes, resetOCRState,   *)
(*     the proxy image element with id 'scan';                             *)
(*   - validateAndFixGPTCoordinates (reconciliation);                      *)
(*   - pixelBoxToPageBox (app/lib/imagePreprocessing.ts).                  *)
(* JavaScript numbers are IEEE-754 binary64 values; they are modelled      *)
(* exactly (sign, odd mantissa of at most 53 bits, exponent), with         *)
(* round-to-nearest-even after every operation.  Mantissas are kept as     *)
(* little-endian sequences of 15-bit limbs.                                *)
(***************************************************************************)
EXTENDS Integers, Sequences, FiniteSets, TLC

(***************************************************************************)
(* Natural numbers of arbitrary size: little-endian limbs, no high zero    *)
(* limb, <<>> is zero.                                                     *)
(***************************************************************************)
LimbBits == 15
Base == 32768
MantBits == 53

IntMax(a, b) == IF a > b THEN a ELSE b
IntMin(a, b) == IF a < b THEN a ELSE b

BLimb(a, i) == IF i <= Len(a) THEN a[i] ELSE 0

RECURSIVE BNorm(_)
BNorm(a) ==
  IF a = <<>> THEN <<>>
  ELSE IF a[Len(a)] = 0 THEN BNorm(SubSeq(a, 1, Len(a) - 1))
  ELSE a

RECURSIVE BFromNat(_)
BFromNat(n) == IF n = 0 THEN <<>> ELSE <<n % Base>> \o BFromNat(n \div Base)

RECURSIVE BAddFrom(_, _, _, _)
BAddFrom(a, b, i, c) ==
  IF i > Len(a) /\ i > Len(b)
  THEN (IF c = 0 THEN <<>> ELSE <<c>>)
  ELSE LET s == BLimb(a, i) + BLimb(b, i) + c
       IN  <<s % Base>> \o BAddFrom(a, b, i + 1, s \div Base)

BAdd(a, b) == BAddFrom(a, b, 1, 0)

\* a - b for a >= b
RECURSIVE BSubFrom(_, _, _, _)
BSubFrom(a, b, i, br) ==
  IF i > Len(a) THEN <<>>
  ELSE LET d == a[i] - BLimb(b, i) - br
       IN  IF d < 0 THEN <<d + Base>> \o BSubFrom(a, b, i + 1, 1)
           ELSE <<d>> \o BSubFrom(a, b, i + 1, 0)

BSub(a, b) == BNorm(BSubFrom(a, b, 1, 0))

\* -1, 0, 1 as a < b, a = b, a > b
RECURSIVE BCmpFrom(_, _, _)
BCmpFrom(a, b, i) ==
  IF i = 0 THEN 0
  ELSE IF a[i] < b[i] THEN -1
  ELSE IF a[i] > b[i] THEN 1
  ELSE BCmpFrom(a, b, i - 1)

BCmp(a, b) ==
  IF Len(a) < Len(b) THEN -1
  ELSE IF Len(a) > Len(b) THEN 1
  ELSE BCmpFrom(a, b, Len(a))

\* a * d for a limb d
RECURSIVE BMulLimbFrom(_, _, _, _)
BMulLimbFrom(a, d, i, c) ==
  IF i > Len(a) THEN (IF c = 0 THEN <<>> ELSE <<c>>)
  ELSE LET p == a[i] * d + c
       IN  <<p % Base>> \o BMulLimbFrom(a, d, i + 1, p \div Base)

BMulLimb(a, d) == IF d = 0 THEN <<>> ELSE BMulLimbFrom(a, d, 1, 0)

BShiftLimbs(a, n) == IF a = <<>> THEN <<>> ELSE [i \in 1..n |-> 0] \o a

RECURSIVE BMulFrom(_, _, _)
BMulFrom(a, b, i) ==
  IF i > Len(b) THEN <<>>
  ELSE BAdd(BShiftLimbs(BMulLimb(a, b[i]), i - 1), BMulFrom(a, b, i + 1))

BMul(a, b) == BMulFrom(a, b, 1)

BShl(a, k) == BShiftLimbs(BMulLimb(a, 2 ^ (k % LimbBits)), k \div LimbBits)

\* d shifted right by r bits, r below LimbBits
BShrBits(d, r) ==
  BNorm([i \in 1..Len(d) |->
          (d[i] \div (2 ^ r)) + (BLimb(d, i + 1) % (2 ^ r)) * (2 ^ (LimbBits - r))])

BShr(a, k) ==
  IF Len(a) <= k \div LimbBits THEN <<>>
  ELSE BShrBits(SubSeq(a, (k \div LimbBits) + 1, Len(a)), k % LimbBits)

RECURSIVE NatBitLen(_)
NatBitLen(n) == IF n = 0 THEN 0 ELSE 1 + NatBitLen(n \div 2)

BBitLen(a) == IF a = <<>> THEN 0 ELSE LimbBits * (Len(a) - 1) + NatBitLen(a[Len(a)])

BBit(a, k) == (BLimb(a, (k \div LimbBits) + 1) \div (2 ^ (k % LimbBits))) % 2

RECURSIVE NatTrailingZeros(_)
NatTrailingZeros(n) == IF n % 2 = 1 THEN 0 ELSE 1 + NatTrailingZeros(n \div 2)

\* number of trailing zero bits of a non-zero natural
RECURSIVE BTrailingZerosFrom(_, _)
BTrailingZerosFrom(a, i) ==
  IF a[i] = 0 THEN LimbBits + BTrailingZerosFrom(a, i + 1)
  ELSE NatTrailingZeros(a[i])

BTrailingZeros(a) == BTrailingZerosFrom(a, 1)

\* one step of the long division of a by b at bit k of a; qr = <<quotient, remainder>>
BDivStepOn(b, q, r2) ==
  IF BCmp(r2, b) >= 0
  THEN <<BAdd(BShl(q, 1), <<1>>), BSub(r2, b)>>
  ELSE <<BShl(q, 1), r2>>

BDivStep(a, b, k, qr) == BDivStepOn(b, qr[1], BAdd(BShl(qr[2], 1), BFromNat(BBit(a, k))))

\* the steps for bits hi down to lo of a, halving the range to keep the nesting shallow
RECURSIVE BDivSteps(_, _, _, _, _)
BDivSteps(a, b, hi, lo, qr) ==
  IF hi < lo THEN qr
  ELSE IF hi = lo THEN BDivStep(a, b, hi, qr)
  ELSE LET mid  == (hi + lo + 1) \div 2
           half == BDivSteps(a, b, hi, mid, qr)
       IN  IF Len(half) = 2 THEN BDivSteps(a, b, mid - 1, lo, half) ELSE half

\* <<a \div b, a % b>> for b > 0
BDivMod(a, b) == BDivSteps(a, b, BBitLen(a) - 1, 0, <<<<>>, <<>>>>)

(***************************************************************************)
(* JavaScript numbers (binary64).  A finite value is                       *)
(* (-1)^s * m * 2^e with m odd and below 2^53; zero has the empty          *)
(* mantissa; NaN stands for every non-finite value.  The values of the     *)
(* model stay far from the exponent limits, so overflow, underflow and     *)
(* subnormals are not represented.                                         *)
(***************************************************************************)
NaN == [nan |-> TRUE]
FZero == [s |-> 0, m |-> <<>>, e |-> 0]

\* Number.isFinite: false for NaN and for a missing (undefined) value
IsFinite(x) == "m" \in DOMAIN x

\* round-to-nearest-even to MantBits bits, then the canonical form
\* the canonical form of a non-zero mantissa r: odd, with tz trailing zero bits moved
\* to the exponent
FCanonAt(s, r, e, tz) == [s |-> s, m |-> BShr(r, tz), e |-> e + tz]
FCanon(s, r, e) == FCanonAt(s, r, e, BTrailingZeros(r))

\* q is m without its k low bits, c compares the bits cut off with half a unit of q
FRoundUp(s, q, e, c) ==
  FCanon(s, IF c > 0 \/ (c = 0 /\ BBit(q, 0) = 1) THEN BAdd(q, <<1>>) ELSE q, e)
FRoundCut(s, m, e, k, q) ==
  FRoundUp(s, q, e + k, BCmp(BSub(m, BShl(q, k)), BShl(<<1>>, k - 1)))
FRoundBits(s, m, e, k) ==
  IF k > 0 THEN FRoundCut(s, m, e, k, BShr(m, k)) ELSE FCanon(s, m, e)

FRound(s, m, e) ==
  IF m = <<>> THEN FZero ELSE FRoundBits(s, m, e, BBitLen(m) - MantBits)

FromInt(n) == IF n < 0 THEN FRound(1, BFromNat(-n), 0) ELSE FRound(0, BFromNat(n), 0)

FNeg(x) ==
  IF ~IsFinite(x) THEN NaN
  ELSE IF x.m = <<>> THEN x
  ELSE [x EXCEPT !.s = 1 - x.s]

FMul(x, y) ==
  IF ~IsFinite(x) \/ ~IsFinite(y) THEN NaN
  ELSE FRound((x.s + y.s) % 2, BMul(x.m, y.m), x.e + y.e)

\* the sum of mantissas mx and my of signs sx and sy at the common exponent e; c
\* compares mx with my
FAddSigned(sx, sy, mx, my, e, c) ==
  IF sx = sy THEN FRound(sx, BAdd(mx, my), e)
  ELSE IF c = 0 THEN FZero
  ELSE FRound(IF c > 0 THEN sx ELSE sy, IF c > 0 THEN BSub(mx, my) ELSE BSub(my, mx), e)
FAddMantissas(sx, sy, mx, my, e) == FAddSigned(sx, sy, mx, my, e, BCmp(mx, my))
FAddAligned(x, y, e) == FAddMantissas(x.s, y.s, BShl(x.m, x.e - e), BShl(y.m, y.e - e), e)

FAdd(x, y) ==
  IF ~IsFinite(x) \/ ~IsFinite(y) THEN NaN
  ELSE IF x.m = <<>> THEN y
  ELSE IF y.m = <<>> THEN x
  ELSE FAddAligned(x, y, IF x.e < y.e THEN x.e ELSE y.e)

FSub(x, y) == FAdd(x, FNeg(y))

\* the quotient with a sticky bit for the remainder, rounded
FDivRounded(s, qr, e) ==
  FRound(s, BAdd(BShl(qr[1], 1), IF qr[2] = <<>> THEN <<>> ELSE <<1>>), e)
\* x.m is shifted left by sh bits so that the quotient has more than MantBits bits
FDivShifted(x, y, sh) ==
  FDivRounded((x.s + y.s) % 2, BDivMod(BShl(x.m, sh), y.m), x.e - y.e - sh - 1)

\* x / y; a zero divisor gives a non-finite value
FDiv(x, y) ==
  IF ~IsFinite(x) \/ ~IsFinite(y) THEN NaN
  ELSE IF y.m = <<>> THEN NaN
  ELSE IF x.m = <<>> THEN FZero
  ELSE FDivShifted(x, y, IntMax(MantBits + 2 + BBitLen(y.m) - BBitLen(x.m), 0))

\* x === y on numbers: NaN equals nothing
NumEq(x, y) == IsFinite(x) /\ IsFinite(y) /\ x = y

\* x < y and x <= y on finite numbers
FIsNegative(d) == d.m # <<>> /\ d.s = 1
FLt(x, y) == IsFinite(x) /\ IsFinite(y) /\ FIsNegative(FSub(x, y))

FLe(x, y) == IsFinite(x) /\ IsFinite(y) /\ (x = y \/ FLt(x, y))

FAbs(x) == IF IsFinite(x) /\ x.m # <<>> THEN [x EXCEPT !.s = 0] ELSE x

(***************************************************************************)
(* lib/imagePreprocessing.ts: pixel box -> page box.                       *)
(***************************************************************************)
Undefined == [undef |-> TRUE]

\* Number.isFinite(box.f) ? box.f : box.bbox?.f
BoxField(box, f) ==
  IF f \in DOMAIN box /\ IsFinite(box[f]) THEN box[f]
  ELSE IF "bbox" \in DOMAIN box /\ f \in DOMAIN box.bbox THEN box.bbox[f]
  ELSE Undefined

\* a mapping that scales the box and leaves out the position of the image
pixelBoxToPageBoxNoOffset(box, img) ==
  LET bx == BoxField(box, "x")
      by == BoxField(box, "y")
      bw == BoxField(box, "w")
      bh == BoxField(box, "h")
      scaleX == FDiv(img.rect.width, img.naturalWidth)
      scaleY == FDiv(img.rect.height, img.naturalHeight)
  IN  [id |-> box.id, x |-> FMul(bx, scaleX), y |-> FMul(by, scaleY),
       w |-> FMul(bw, scaleX), h |-> FMul(bh, scaleY)]

\* the editor argument of the source is not read by the function
pixelBoxToPageBox(box, img) ==
  LET bx == BoxField(box, "x")
      by == BoxField(box, "y")
      bw == BoxField(box, "w")
      bh == BoxField(box, "h")
      scaleX == FDiv(img.rect.width, img.naturalWidth)
      scaleY == FDiv(img.rect.height, img.naturalHeight)
      pageX1 == FAdd(img.rect.x, FMul(bx, scaleX))
      pageY1 == FAdd(img.rect.y, FMul(by, scaleY))
      pageX2 == FAdd(img.rect.x, FMul(FAdd(bx, bw), scaleX))
      pageY2 == FAdd(img.rect.y, FMul(FAdd(by, bh), scaleY))
  IN  IF ~IsFinite(bx) \/ ~IsFinite(by)
      THEN [id |-> IF "id" \in DOMAIN box THEN box.id ELSE "unknown",
            x |-> NaN, y |-> NaN, w |-> NaN, h |-> NaN]
      ELSE [id |-> box.id,
            x |-> pageX1,
            y |-> pageY1,
            w |-> FSub(pageX2, pageX1),
            h |-> FSub(pageY2, pageY1)]

mapOcrBoxesToPage(boxes, img) ==
  [i \in 1..Len(boxes) |-> pixelBoxToPageBox(boxes[i], img)]

(***************************************************************************)
(* hooks/useHandwritingOCR.ts: reconciliation of the error annotations     *)
(* returned by the analysis service against the OCR character boxes.       *)
(***************************************************************************)
\* new Map(ocrCharBoxes.map(char => [char.id, char])).get(id): the last entry wins
RECURSIVE charMapGetFrom(_, _, _)
charMapGetFrom(ocrCharBoxes, id, i) ==
  IF i = 0 THEN Undefined
  ELSE IF ocrCharBoxes[i].id = id THEN ocrCharBoxes[i]
  ELSE charMapGetFrom(ocrCharBoxes, id, i - 1)

\* a lookup that answers with the last character whatever the id
charMapGetAny(ocrCharBoxes, id) ==
  IF Len(ocrCharBoxes) = 0 THEN Undefined ELSE ocrCharBoxes[Len(ocrCharBoxes)]

charMapGet(ocrCharBoxes, id) == charMapGetFrom(ocrCharBoxes, id, Len(ocrCharBoxes))

coordsMatch(error, ocrChar) ==
  /\ NumEq(error.bbox.x, ocrChar.bbox.x)
  /\ NumEq(error.bbox.y, ocrChar.bbox.y)
  /\ NumEq(error.bbox.w, ocrChar.bbox.w)
  /\ NumEq(error.bbox.h, ocrChar.bbox.h)

\* a map callback that returns every annotation as it came
fixOneGPTErrorKeepingInput(error, ocrCharBoxes) == error

\* the callback of gptErrors.map
fixOneGPTError(error, ocrCharBoxes) ==
  LET ocrChar == charMapGet(ocrCharBoxes, error.id)
  IN  IF ocrChar = Undefined THEN error
      ELSE IF ~coordsMatch(error, ocrChar)
      THEN [f \in DOMAIN error \cup {"bbox", "center"} |->
              IF f = "bbox" THEN ocrChar.bbox
              ELSE IF f = "center" THEN ocrChar.center
              ELSE error[f]]
      ELSE error

validateAndFixGPTCoordinates(gptErrors, ocrCharBoxes) ==
  [i \in 1..Len(gptErrors) |-> fixOneGPTError(gptErrors[i], ocrCharBoxes)]

\* the ids reported by console.warn as referring to no OCR character
unknownIdWarnings(gptErrors, ocrCharBoxes) ==
  {gptErrors[i].id : i \in {j \in 1..Len(gptErrors) :
                               charMapGet(ocrCharBoxes, gptErrors[j].id) = Undefined}}

(***************************************************************************)
(* The useHandwritingOCR hook.                                             *)
(***************************************************************************)
VARIABLES
  ocrState,    \* the React state of the hook (useState)
  img,         \* the proxy image element with id 'scan'
  calls,       \* the calls of initializeOCR / processSelectedShapes, by call number
  ncalls,      \* number of calls made so far
  resetMark,   \* set by resetOCRState until the next processSelectedShapes call
  pureIn,      \* arguments of the pure function applied
  pureOut,     \* its result
  auto         \* the run of the idle timer of AutoOCRProcessor

hookVars == <<ocrState, img, calls, ncalls, resetMark, auto>>
pureVars == <<pureIn, pureOut, auto>>
vars == <<ocrState, img, calls, ncalls, resetMark, pureIn, pureOut, auto>>

\* bounds of the model
MaxCalls == 2
ShapePool == {"a"}

Null == [null |-> TRUE]
CallIds == 1..MaxCalls

\* messages of the thrown errors (the source's texts are Chinese literals)
MsgNoShapes == "please select the handwriting area first"
MsgNoBounds == "cannot get the selection bounds"
MsgNoBlob == "cannot capture the canvas image"
MsgImageLoadFailed == "image load failed"
MsgInitFailed == "initialization failed"
\* editor.toImage and processImageOCR reject with an Error that has a message
MsgExternal == "message of an error thrown by a collaborator"
MsgIncomplete == "initialization data incomplete"
MsgInitOk == "OCR environment initialised, click again to recognise"

\* useState initial value; also the value resetOCRState sets
InitialOCRState ==
  [isProcessing |-> FALSE,
   lastResult |-> Null,
   lastSelectionBounds |-> Null,
   isInitialized |-> FALSE,
   initializationData |-> Null,
   error |-> Null]

\* setOCRState(prev => ({ ...prev, ...updates }))
updateOCRState(st, updates) ==
  [f \in DOMAIN st |-> IF f \in DOMAIN updates THEN updates[f] ELSE st[f]]

\* editor.getSelectionPageBounds() of a non-empty selection: one rectangle per selection
BoundsOf(shapeIds) == [of |-> shapeIds]

\* what the editor can answer to getSelectedShapeIds / getSelectionPageBounds
SelectionChoices ==
  {[shapeIds |-> {}, bounds |-> Null]}
  \cup {[shapeIds |-> s, bounds |-> b] :
          s \in SUBSET ShapePool \ {{}}, b \in {Null}}
  \cup {[shapeIds |-> s, bounds |-> BoundsOf(s)] : s \in SUBSET ShapePool \ {{}}}

\* the element before any source was assigned to it
NoImg == [src |-> Null, current |-> Null, loading |-> FALSE, handlers |-> 0]

\* the part of the state a callback reads from its closure
ClosureOf(st) ==
  [isInitialized |-> st.isInitialized, initializationData |-> st.initializationData]

UnusedCall ==
  [pc |-> "unused", fn |-> "none", phase |-> "none", seen |-> ClosureOf(InitialOCRState),
   session |-> ClosureOf(InitialOCRState), afterReset |-> Null, shapeIds |-> {}, selectionBounds |-> Null, blob |-> Null,
   imageCanvas |-> Null, rasterized |-> FALSE, gateImage |-> Null,
   ocrInput |-> Null, ocrResult |-> Null, ret |-> Null, errorToast |-> Null,
   resetInFlight |-> FALSE, selection |-> Null, mapping |-> Null]

\* AutoOCRProcessor before its timer is set: no run, processingStateRef.current
\* .initialized false
NoAutoRun ==
  [pc |-> "off", seen |-> ClosureOf(InitialOCRState), initialized |-> FALSE,
   fresh |-> FALSE, first |-> 0, second |-> 0]

InFlightPcs == {"toImage", "blobToCanvas", "gate", "ocr", "save", "analysis"}
InFlight(c) == calls[c].pc \in InFlightPcs

Init ==
  /\ ocrState = InitialOCRState
  /\ img = NoImg
  /\ calls = [c \in CallIds |-> UnusedCall]
  /\ ncalls = 0
  /\ resetMark = Null
  /\ pureIn = Null
  /\ pureOut = Null
  /\ auto = NoAutoRun

(***************************************************************************)
(* initializeOCR                                                           *)
(***************************************************************************)
\* the value returned to the caller of the entry point fn
InitReturn(fn, success, message) ==
  IF fn = "initializeOCR"
  THEN [success |-> success, message |-> message]
  ELSE [success |-> success,
        error |-> IF success THEN Undefined ELSE [message |-> message],
        result |-> Undefined]

\* a catch block that reports the error and keeps the initialization data
InitCatchStateKeepingData(st, message) ==
  updateOCRState(st, [isProcessing |-> FALSE, error |-> [message |-> message]])

\* catch block of initializeOCR
InitCatchState(st, message) ==
  updateOCRState(st, [isProcessing |-> FALSE,
                      error |-> [message |-> message],
                      isInitialized |-> FALSE,
                      initializationData |-> Null])

\* the catch block of initializeOCR makes no call of addToast: errorToast stays as it is
InitFail(st, call, message) ==
  [state |-> InitCatchState(st, message),
   call  |-> [call EXCEPT !.pc = "done", !.ret = InitReturn(call.fn, FALSE, message)]]

\* the synchronous start of initializeOCR up to the await of editor.toImage
InitStart(st, call, sel) ==
  LET st1 == updateOCRState(st, [isProcessing |-> TRUE, error |-> Null])
      c1  == [call EXCEPT !.phase = "init"]
  IN  IF sel.shapeIds = {} THEN InitFail(st1, c1, MsgNoShapes)
      ELSE IF sel.bounds = Null THEN InitFail(st1, c1, MsgNoBounds)
      ELSE [state |-> st1,
            call  |-> [c1 EXCEPT !.pc = "toImage", !.shapeIds = sel.shapeIds,
                                 !.selectionBounds = sel.bounds, !.rasterized = TRUE]]

\* an end of initializeOCR that marks the session initialised and stores no canvas
InitSuccessWithoutCanvas(st, call, decoded) ==
  [state |-> updateOCRState(st, [isInitialized |-> TRUE,
                                 initializationData |->
                                   [selectionBounds |-> call.selectionBounds,
                                    shapeIds |-> call.shapeIds,
                                    imageCanvas |-> Null],
                                 isProcessing |-> FALSE]),
   call  |-> [call EXCEPT !.pc = "done", !.gateImage = decoded,
                          !.ret = InitReturn(call.fn, TRUE, MsgInitOk)]]

\* the end of initializeOCR after the image promise resolved
InitSuccess(st, call, decoded) ==
  [state |-> updateOCRState(st, [isInitialized |-> TRUE,
                                 initializationData |->
                                   [selectionBounds |-> call.selectionBounds,
                                    shapeIds |-> call.shapeIds,
                                    imageCanvas |-> call.imageCanvas],
                                 isProcessing |-> FALSE]),
   call  |-> [call EXCEPT !.pc = "done", !.gateImage = decoded,
                          !.ret = InitReturn(call.fn, TRUE, MsgInitOk)]]

CallInitializeOCR ==
  /\ ncalls < MaxCalls
  /\ \E sel \in SelectionChoices :
       LET c == ncalls + 1
           r == InitStart(ocrState, [UnusedCall EXCEPT !.fn = "initializeOCR",
                                                       !.seen = ClosureOf(ocrState),
                                                       !.session = ClosureOf(ocrState)], sel)
       IN  /\ ocrState' = r.state
           /\ calls' = [calls EXCEPT ![c] = r.call]
           /\ ncalls' = c
  /\ UNCHANGED <<img, resetMark, pureIn, pureOut, auto>>

\* editor.toImage settles: a blob, no blob, or a rejection
ToImageDone ==
  /\ \E c \in CallIds, outcome \in {"blob", "noblob", "throw"} :
       /\ calls[c].pc = "toImage"
       /\ LET r == IF outcome = "blob"
                   THEN [state |-> ocrState,
                         call  |-> [calls[c] EXCEPT !.pc = "blobToCanvas",
                                       !.blob = [capture |-> c, shapes |-> calls[c].shapeIds]]]
                   ELSE IF outcome = "noblob" THEN InitFail(ocrState, calls[c], MsgNoBlob)
                   ELSE InitFail(ocrState, calls[c], MsgExternal)
          IN  /\ ocrState' = r.state
              /\ calls' = [calls EXCEPT ![c] = r.call]
  /\ UNCHANGED <<img, ncalls, resetMark, pureIn, pureOut, auto>>

\* the image a source assignment asks the element to load
ImageOf(bitmap, by) == [bitmap |-> bitmap, by |-> by]

\* the test made right after the handlers are installed:
\* img.complete && img.naturalWidth > 0.  The element still holds the picture of its
\* previous source; whether complete is true at that moment depends on the engine.
completeAndSized(image, stale) == stale /\ image.current # Null

\* blobToCanvas settles; then the proxy element gets the blob as its source and the
\* image promise is created
BlobToCanvasDone ==
  /\ \E c \in CallIds, outcome \in {"canvas", "error"}, stale \in BOOLEAN :
       /\ calls[c].pc = "blobToCanvas"
       /\ IF outcome = "error"
          THEN LET r == InitFail(ocrState, calls[c], MsgInitFailed)
               IN  /\ ocrState' = r.state
                   /\ calls' = [calls EXCEPT ![c] = r.call]
                   /\ img' = img
          ELSE LET c1 == [calls[c] EXCEPT !.imageCanvas = [pixels |-> calls[c].blob]]
                   img1 == [src |-> ImageOf(calls[c].blob, c), current |-> img.current,
                            loading |-> TRUE, handlers |-> c]
                   r == IF completeAndSized(img1, stale)
                        THEN InitSuccess(ocrState, c1, img1.current)
                        ELSE [state |-> ocrState, call |-> [c1 EXCEPT !.pc = "gate"]]
               IN  /\ ocrState' = r.state
                   /\ calls' = [calls EXCEPT ![c] = r.call]
                   /\ img' = img1
  /\ UNCHANGED <<ncalls, resetMark, pureIn, pureOut, auto>>

\* the element finishes decoding its source: load event, img.onload
ImgLoad ==
  /\ img.loading
  /\ img' = [img EXCEPT !.current = img.src, !.loading = FALSE]
  /\ IF img.handlers \in CallIds /\ calls[img.handlers].pc = "gate"
     THEN LET r == InitSuccess(ocrState, calls[img.handlers], img.src)
          IN  /\ ocrState' = r.state
              /\ calls' = [calls EXCEPT ![img.handlers] = r.call]
     ELSE UNCHANGED <<ocrState, calls>>
  /\ UNCHANGED <<ncalls, resetMark, pureIn, pureOut, auto>>

\* the element fails to decode its source: error event, img.onerror
ImgError ==
  /\ img.loading
  /\ img' = [img EXCEPT !.current = Null, !.loading = FALSE]
  /\ IF img.handlers \in CallIds /\ calls[img.handlers].pc = "gate"
     THEN LET r == InitFail(ocrState, calls[img.handlers], MsgImageLoadFailed)
          IN  /\ ocrState' = r.state
              /\ calls' = [calls EXCEPT ![img.handlers] = r.call]
     ELSE UNCHANGED <<ocrState, calls>>
  /\ UNCHANGED <<ncalls, resetMark, pureIn, pureOut, auto>>

(***************************************************************************)
(* processSelectedShapes                                                   *)
(***************************************************************************)
\* catch block of processSelectedShapes
RecogCatchState(st, message) ==
  updateOCRState(st, [isProcessing |-> FALSE, error |-> [message |-> message]])

\* the toast of the catch block of processSelectedShapes
RecogErrorToast(message) ==
  [id |-> "ocr-error", title |-> "OCR processing failed",
   description |-> [message |-> message], severity |-> "error"]

RecogFail(st, call, message) ==
  [state |-> RecogCatchState(st, message),
   call  |-> [call EXCEPT !.pc = "done",
                          !.errorToast = RecogErrorToast(message),
                          !.ret = [success |-> FALSE, error |-> [message |-> message],
                                   result |-> Undefined]]]

\* a canvas rasterized anew from the shapes of the initialization data
originalCanvasRerasterized(initializationData) ==
  [pixels |-> [capture |-> 0, shapes |-> initializationData.shapeIds]]

\* the canvas the recognition works on
originalCanvasOf(initializationData) == initializationData.imageCanvas

\* preprocessImage returns a new canvas computed from the pixels of its argument
preprocessImage(canvas) == [preprocessed |-> canvas]

\* the recognition branch up to the await of processImageOCR
RecogStart(st, call) ==
  LET st1  == updateOCRState(st, [isProcessing |-> TRUE, error |-> Null])
      data == call.seen.initializationData
      c1   == [call EXCEPT !.phase = "recog"]
  IN  IF data.imageCanvas = Null \/ data.selectionBounds = Null
      THEN RecogFail(st1, c1, MsgIncomplete)
      ELSE [state |-> st1,
            call  |-> [c1 EXCEPT !.pc = "ocr",
                                 !.selectionBounds = data.selectionBounds,
                                 !.shapeIds = data.shapeIds,
                                 !.ocrInput = [originalCanvas |-> originalCanvasOf(data),
                                               preprocessedCanvas |->
                                                 preprocessImage(originalCanvasOf(data))]]]

\* the two-phase dispatch on the state the callback's closure holds
needsInitialization(seen) == ~seen.isInitialized \/ seen.initializationData = Null

processSelectedShapesStart(st, seen, mark, sel) ==
  LET call == [UnusedCall EXCEPT !.fn = "processSelectedShapes", !.seen = seen,
                                 !.session = ClosureOf(st), !.afterReset = mark,
                                 !.selection = sel.shapeIds]
  IN  IF needsInitialization(seen)
      THEN InitStart(st, call, sel)
      ELSE RecogStart(st, call)

\* a call of processSelectedShapes from an event of its own: the callback is the one
\* of the latest render, and a render has followed every earlier state update
processSelectedShapesCalled(sel) ==
  LET c == ncalls + 1
      r == processSelectedShapesStart(ocrState, ClosureOf(ocrState), resetMark, sel)
  IN  /\ ocrState' = r.state
      /\ calls' = [calls EXCEPT ![c] = r.call]
      /\ ncalls' = c

CallProcessSelectedShapes ==
  /\ ncalls < MaxCalls
  /\ \E sel \in SelectionChoices : processSelectedShapesCalled(sel)
  /\ resetMark' = Null
  /\ UNCHANGED <<img, pureIn, pureOut, auto>>

\* what processImageOCR returns for its two canvases
OcrResultOf(ocrInput) ==
  [recognised |-> ocrInput.preprocessedCanvas, originalImage |-> ocrInput.originalCanvas]

\* processImageOCR settles
OcrDone ==
  /\ \E c \in CallIds, outcome \in {"result", "throw"} :
       /\ calls[c].pc = "ocr"
       /\ LET r == IF outcome = "throw"
                   THEN RecogFail(ocrState, calls[c], MsgExternal)
                   ELSE [state |-> ocrState,
                         call  |-> [calls[c] EXCEPT !.pc = "save",
                                      !.ocrResult = OcrResultOf(calls[c].ocrInput)]]
          IN  /\ ocrState' = r.state
              /\ calls' = [calls EXCEPT ![c] = r.call]
  /\ UNCHANGED <<img, ncalls, resetMark, pureIn, pureOut, auto>>

\* saveOCRResultToDataDirectory settles; a failure only shows a toast
SaveDone ==
  /\ \E c \in CallIds :
       /\ calls[c].pc = "save"
       /\ calls' = [calls EXCEPT ![c].pc = "analysis"]
  /\ UNCHANGED <<ocrState, img, ncalls, resetMark, pureIn, pureOut, auto>>

\* the effect on [lastResult, lastSelectionBounds]: the proxy element gets the
\* image of the last result as its source
scanEffect(image, st) ==
  IF st.lastResult # Null
  THEN [image EXCEPT !.src = ImageOf(st.lastResult.originalImage.pixels, 0),
                     !.loading = TRUE]
  ELSE image

\* img.complete && img.naturalWidth !== 0 in getImageData: while a new source is
\* loading the element may still answer for the picture it shows
scanReady(image, stale) == image.current # Null /\ (image.loading => stale)

\* getImageData: the rectangle is the editor's selection of the moment, the natural
\* size is the one of the picture the proxy element shows (the selected shapes are
\* handwriting, none of them an image shape)
getImageData(image, sel, stale) ==
  IF ~scanReady(image, stale) THEN Null
  ELSE IF sel.bounds # Null
  THEN [rect |-> sel.bounds, natural |-> image.current.bitmap]
  ELSE Null

\* standardImageData: the selection bounds of the initialization data and
\* ocrResult.metadata.imageWidth / imageHeight, set to the size of originalCanvas
standardImageData(call) ==
  [rect |-> call.selectionBounds, natural |-> call.ocrResult.originalImage.pixels]

\* the geometry mapOcrBoxesToPage is called with, after the retries of getImageData
mappingGeometryOf(call, image, sel, stale) ==
  IF getImageData(image, sel, stale) # Null
  THEN getImageData(image, sel, stale)
  ELSE standardImageData(call)

\* the error analysis and what follows it end for call c: the mapping of the errors
\* found, the final state update, the return, and the render with its effect
\* an end of the recognition that also ends the session
analysisDoneEndingSession(c, sel, stale, hasErrors) ==
  /\ ocrState' = updateOCRState(ocrState,
                   [lastResult |-> calls[c].ocrResult,
                    lastSelectionBounds |-> calls[c].selectionBounds,
                    isInitialized |-> FALSE,
                    initializationData |-> Null,
                    isProcessing |-> FALSE])
  /\ calls' = [calls EXCEPT ![c].pc = "done",
                            ![c].mapping = IF hasErrors
                                           THEN mappingGeometryOf(calls[c], img, sel, stale)
                                           ELSE Null,
                            ![c].ret = [success |-> TRUE, error |-> Undefined,
                                        result |-> calls[c].ocrResult]]
  /\ img' = scanEffect(img, ocrState')

analysisDone(c, sel, stale, hasErrors) ==
  /\ ocrState' = updateOCRState(ocrState,
                   [lastResult |-> calls[c].ocrResult,
                    lastSelectionBounds |-> calls[c].selectionBounds,
                    isProcessing |-> FALSE])
  /\ calls' = [calls EXCEPT ![c].pc = "done",
                            ![c].mapping = IF hasErrors
                                           THEN mappingGeometryOf(calls[c], img, sel, stale)
                                           ELSE Null,
                            ![c].ret = [success |-> TRUE, error |-> Undefined,
                                        result |-> calls[c].ocrResult]]
  /\ img' = scanEffect(img, ocrState')

AnalysisDone ==
  /\ \E c \in CallIds, sel \in SelectionChoices, stale \in BOOLEAN, hasErrors \in BOOLEAN :
       /\ calls[c].pc = "analysis"
       /\ analysisDone(c, sel, stale, hasErrors)
  /\ UNCHANGED <<ncalls, resetMark, pureIn, pureOut, auto>>

(***************************************************************************)
(* resetOCRState and the button handler                                    *)
(***************************************************************************)
resetOCRState(st) == InitialOCRState

\* what a reset leaves for the next processSelectedShapes call to be compared with
ResetMarkOf(st) == [data |-> st.initializationData]

\* the calls in flight at a reset are left to run; resetInFlight records, for the
\* properties, that a reset happened while the call was in flight
leftInFlight(cs) ==
  [c \in CallIds |-> IF cs[c].pc \in InFlightPcs
                     THEN [cs[c] EXCEPT !.resetInFlight = TRUE]
                     ELSE cs[c]]

CallResetOCRState ==
  /\ ocrState' = resetOCRState(ocrState)
  /\ resetMark' = IF resetMark # Null /\ ocrState.initializationData = Null
                  THEN resetMark ELSE ResetMarkOf(ocrState)
  /\ calls' = leftInFlight(calls)
  /\ UNCHANGED <<img, ncalls, pureIn, pureOut, auto>>

\* HandwritingButton.handleProcessSelected: resetOCRState() and then
\* processSelectedShapes() in the same event handler, the callback being the one of
\* the render before the click; the button is disabled while isProcessing is true
handleProcessSelected ==
  /\ ncalls < MaxCalls
  /\ ~ocrState.isProcessing
  /\ \E sel \in SelectionChoices :
       LET c == ncalls + 1
           r == processSelectedShapesStart(resetOCRState(ocrState), ClosureOf(ocrState),
                                           ResetMarkOf(ocrState), sel)
       IN  /\ ocrState' = r.state
           /\ calls' = [leftInFlight(calls) EXCEPT ![c] = r.call]
           /\ ncalls' = c
  /\ resetMark' = Null
  /\ UNCHANGED <<img, pureIn, pureOut, auto>>

Next ==
  \/ CallInitializeOCR
  \/ ToImageDone
  \/ BlobToCanvasDone
  \/ ImgLoad
  \/ ImgError
  \/ CallProcessSelectedShapes
  \/ OcrDone
  \/ SaveDone
  \/ AnalysisDone
  \/ CallResetOCRState
  \/ handleProcessSelected

Spec == Init /\ [][Next]_vars

(***************************************************************************)
(* AutoOCRProcessor: its own instance of the hook, driven by the idle      *)
(* timer.  The timer callback holds the isInitialized, initializeOCR and   *)
(* processSelectedShapes of the render in which its effect ran.            *)
(***************************************************************************)
(***************************************************************************)
(* processSelectedShapes called again and again, with no reset between     *)
(* the calls, while the user selects one handwriting or another.           *)
(***************************************************************************)
Handwritings == {{"a"}, {"b"}}
HandwritingSelections ==
  {[shapeIds |-> {}, bounds |-> Null]}
  \cup {[shapeIds |-> s, bounds |-> BoundsOf(s)] : s \in Handwritings}

\* a call of processSelectedShapes on the selection of the moment
CallOnSelection ==
  /\ ncalls < MaxCalls
  /\ \E sel \in HandwritingSelections : processSelectedShapesCalled(sel)
  /\ resetMark' = Null
  /\ UNCHANGED <<img, pureIn, pureOut, auto>>

\* the analysis of a call ends while one handwriting or another is selected
AnalysisDoneOnSelection ==
  /\ \E c \in CallIds, sel \in HandwritingSelections, stale \in BOOLEAN,
        hasErrors \in BOOLEAN :
       /\ calls[c].pc = "analysis"
       /\ analysisDone(c, sel, stale, hasErrors)
  /\ UNCHANGED <<ncalls, resetMark, pureIn, pureOut, auto>>

NextSelection ==
  \/ CallOnSelection
  \/ ToImageDone
  \/ BlobToCanvasDone
  \/ ImgLoad
  \/ ImgError
  \/ OcrDone
  \/ SaveDone
  \/ AnalysisDoneOnSelection

SpecSelection == Init /\ [][NextSelection]_vars

\* the selections with which the timer callback goes on
\* (editor.getSelectedShapeIds().length > 0)
AutoSelectionChoices == {sel \in SelectionChoices : sel.shapeIds # {}}

\* the raster and the state of a session that an earlier run has initialised
EarlierBlob == [capture |-> 0, shapes |-> ShapePool]
EarlierSession ==
  updateOCRState(InitialOCRState,
                 [isInitialized |-> TRUE,
                  initializationData |-> [selectionBounds |-> BoundsOf(ShapePool),
                                          shapeIds |-> ShapePool,
                                          imageCanvas |-> [pixels |-> EarlierBlob]]])

InitAuto ==
  /\ \/ /\ ocrState = InitialOCRState
        /\ img = NoImg
        /\ auto = [NoAutoRun EXCEPT !.pc = "armed"]
     \/ /\ ocrState = EarlierSession
        /\ img = [src |-> ImageOf(EarlierBlob, 0), current |-> ImageOf(EarlierBlob, 0),
                  loading |-> FALSE, handlers |-> 0]
        /\ auto = [NoAutoRun EXCEPT !.pc = "armed", !.initialized = TRUE]
  /\ calls = [c \in CallIds |-> UnusedCall]
  /\ ncalls = 0
  /\ resetMark = Null
  /\ pureIn = Null
  /\ pureOut = Null

\* the timer fires: the first branch calls initializeOCR, the second one
\* processSelectedShapes; with neither, the run ends at once
AutoTimerFires ==
  /\ auto.pc = "armed"
  /\ ~ocrState.isProcessing
  /\ ncalls < MaxCalls
  /\ \E sel \in AutoSelectionChoices :
       LET c    == ncalls + 1
           seen == ClosureOf(ocrState)
       IN  IF ~seen.isInitialized /\ ~auto.initialized
           THEN LET r == InitStart(ocrState,
                                   [UnusedCall EXCEPT !.fn = "initializeOCR",
                                                      !.seen = seen, !.session = seen], sel)
                IN  /\ ocrState' = r.state
                    /\ calls' = [calls EXCEPT ![c] = r.call]
                    /\ ncalls' = c
                    /\ auto' = [pc |-> "initializing", seen |-> seen, initialized |-> TRUE,
                                fresh |-> TRUE, first |-> c, second |-> 0]
           ELSE IF seen.isInitialized
           THEN LET r == processSelectedShapesStart(ocrState, seen, resetMark, sel)
                IN  /\ ocrState' = r.state
                    /\ calls' = [calls EXCEPT ![c] = r.call]
                    /\ ncalls' = c
                    /\ auto' = [auto EXCEPT !.pc = "recognizing", !.seen = seen,
                                            !.fresh = FALSE, !.first = c, !.second = 0]
           ELSE /\ auto' = [auto EXCEPT !.pc = "ended", !.fresh = FALSE,
                                        !.first = 0, !.second = 0]
                /\ UNCHANGED <<ocrState, calls, ncalls>>
  /\ UNCHANGED <<img, resetMark, pureIn, pureOut>>

\* initializeOCR has returned and the 2000 ms have passed: the callback calls the
\* processSelectedShapes it holds, whatever initializeOCR returned
AutoSettleElapsed ==
  /\ auto.pc = "initializing"
  /\ calls[auto.first].pc = "done"
  /\ ncalls < MaxCalls
  /\ \E sel \in SelectionChoices :
       LET c == ncalls + 1
           r == processSelectedShapesStart(ocrState, auto.seen, resetMark, sel)
       IN  /\ ocrState' = r.state
           /\ calls' = [calls EXCEPT ![c] = r.call]
           /\ ncalls' = c
           /\ auto' = [auto EXCEPT !.pc = "recognizing", !.second = c]
  /\ UNCHANGED <<img, resetMark, pureIn, pureOut>>

\* the awaited processSelectedShapes has returned: the finally block; a later edit
\* sets the timer again
AutoRunEnds ==
  /\ auto.pc = "recognizing"
  /\ calls[IF auto.second # 0 THEN auto.second ELSE auto.first].pc = "done"
  /\ auto' = [auto EXCEPT !.pc = "ended"]
  /\ UNCHANGED <<ocrState, img, calls, ncalls, resetMark, pureIn, pureOut>>

AutoTimerSet ==
  /\ auto.pc = "ended"
  /\ auto' = [auto EXCEPT !.pc = "armed"]
  /\ UNCHANGED <<ocrState, img, calls, ncalls, resetMark, pureIn, pureOut>>

NextAuto ==
  \/ AutoTimerFires
  \/ AutoSettleElapsed
  \/ AutoRunEnds
  \/ AutoTimerSet
  \/ ToImageDone
  \/ BlobToCanvasDone
  \/ ImgLoad
  \/ ImgError
  \/ OcrDone
  \/ SaveDone
  \/ AnalysisDone

SpecAuto == InitAuto /\ [][NextAuto]_vars

(***************************************************************************)
(* Properties of the two-phase protocol                                    *)
(***************************************************************************)
PSSCalls == {c \in CallIds : calls[c].fn = "processSelectedShapes"}
InitRuns == {c \in CallIds : calls[c].phase = "init"}
RecogRuns == {c \in CallIds : calls[c].phase = "recog"}
Finishes(c) == calls[c].pc # "done" /\ calls'[c].pc = "done"

\* C1: a processSelectedShapes call on a session that is not initialised
\* (isInitialized false or initializationData null at the time of the call) runs
\* only the initialization phase and returns no recognition result; a call on an
\* initialised session runs the recognition and, when it succeeds, returns
\* success = true with the OCR result.
C1_PhaseOrdering ==
  \A c \in PSSCalls :
    /\ needsInitialization(calls[c].session) =>
         /\ calls[c].phase = "init"
         /\ calls[c].ocrInput = Null
         /\ calls[c].pc = "done" => calls[c].ret.result = Undefined
    /\ ~needsInitialization(calls[c].session) =>
         /\ calls[c].phase = "recog"
         /\ (calls[c].pc = "done" /\ calls[c].ocrResult # Null) =>
              /\ calls[c].ret.success
              /\ calls[c].ret.result = calls[c].ocrResult

\* C2: two phases are never in flight at the same time.
C2_OnePhaseInFlight ==
  Cardinality({c \in CallIds : InFlight(c)}) <= 1

C4_GateOnOwnRaster ==
  \A c \in InitRuns :
    (calls[c].pc = "done" /\ calls[c].ret.success) =>
      calls[c].gateImage = ImageOf(calls[c].blob, c)

initializationDataComplete(data) ==
  /\ data.selectionBounds # Null
  /\ data.shapeIds # {}
  /\ data.imageCanvas # Null

InitFailureLeavesIdle ==
  \A c \in CallIds :
    (Finishes(c) /\ calls'[c].phase = "init" /\ ~calls'[c].ret.success) =>
      /\ ~ocrState'.isInitialized
      /\ ocrState'.initializationData = Null
      /\ ~ocrState'.isProcessing
      /\ ocrState'.error # Null
      /\ ocrState'.error.message # ""
      /\ calls'[c].fn = "initializeOCR" => calls'[c].ret.message = ocrState'.error.message

\* C7: when the initialization phase fails, the step that ends it leaves
\* isInitialized false, initializationData null, isProcessing false and a non-empty
\* error message, and the call returns success = false; the initializationData of
\* the state is always either null or complete.
C7_InitFailureReturnsToIdle ==
  /\ [](ocrState.initializationData = Null
          \/ initializationDataComplete(ocrState.initializationData))
  /\ [][InitFailureLeavesIdle]_vars

C7_Witness ==
  \E c \in InitRuns, d \in InitRuns :
    /\ calls[d].pc = "done" /\ calls[d].ret.success
    /\ calls[c].pc = "done" /\ ~calls[c].ret.success
    /\ c > d
    /\ calls[c].ret = [success |-> FALSE, message |-> MsgImageLoadFailed]
    /\ ocrState = [InitialOCRState EXCEPT !.error = [message |-> MsgImageLoadFailed]]

\* C8: when the recognition fails, the step that ends it leaves isInitialized false
\* and initializationData null.
C8_RecognitionFailureReturnsToIdle ==
  [][\A c \in CallIds :
       (Finishes(c) /\ calls'[c].phase = "recog" /\ ~calls'[c].ret.success) =>
         /\ ~ocrState'.isInitialized
         /\ ocrState'.initializationData = Null]_vars

\* C9: the first processSelectedShapes call after a reset runs the initialization
\* phase and does not run the OCR on the canvas of the session that was reset.
C9_FirstCallAfterResetInitializes ==
  \A c \in PSSCalls :
    calls[c].afterReset # Null =>
      /\ calls[c].phase = "init"
      /\ calls[c].ocrInput = Null
         \/ calls[c].afterReset.data = Null
         \/ calls[c].ocrInput.originalCanvas # calls[c].afterReset.data.imageCanvas

\* C27: isProcessing is true exactly while a phase is in flight: it is never false
\* while some phase has started and not yet finished, and it is false once every
\* phase that started has finished.
C27_ProcessingIffPhaseInFlight ==
  ocrState.isProcessing <=> \E c \in CallIds : InFlight(c)

\* the initialization data an initialization phase stores at its end
DataOfCall(c) ==
  [selectionBounds |-> calls[c].selectionBounds, shapeIds |-> calls[c].shapeIds,
   imageCanvas |-> calls[c].imageCanvas]

\* C30: in every reachable state of the hook, isInitialized = true implies that
\* initializationData is not null and holds the selection bounds, the shape ids and
\* the image canvas of one and the same initializeOCR run.
C30_InitializedSessionHasDataOfOneCall ==
  ocrState.isInitialized =>
    /\ ocrState.initializationData # Null
    /\ \E c \in InitRuns :
         /\ calls[c].imageCanvas # Null
         /\ calls[c].selectionBounds # Null
         /\ calls[c].shapeIds # {}
         /\ ocrState.initializationData = DataOfCall(c)

C30_Witness ==
  /\ ocrState.isInitialized
  /\ InitRuns = {1, 2}
  /\ calls[1].pc = "done" /\ calls[1].ret.success
  /\ calls[2].pc = "done" /\ calls[2].ret.success
  /\ calls[1].imageCanvas # calls[2].imageCanvas
  /\ ocrState.initializationData = DataOfCall(1)

SucceededRecognitions ==
  {c \in RecogRuns : calls[c].pc = "done" /\ calls[c].ret.success}

\* the calls of processSelectedShapes that follow a recognition that succeeded
FollowsRecognition(c1, c2) ==
  /\ c1 \in SucceededRecognitions
  /\ c1 < c2
  /\ calls[c2].fn = "processSelectedShapes"

\* C29: a recognition run that succeeds leaves isInitialized and initializationData
\* as they were, and the processSelectedShapes call that follows it with no reset in
\* between runs the recognition again, on the canvas of the same initialization
\* phase, and rasterizes nothing.
C29_RecognitionKeepsSession ==
  [][/\ \A c \in CallIds :
          (Finishes(c) /\ calls'[c].phase = "recog" /\ calls'[c].ret.success) =>
            /\ ocrState'.isInitialized = ocrState.isInitialized
            /\ ocrState'.initializationData = ocrState.initializationData
     /\ \A c1 \in CallIds, c2 \in CallIds :
          FollowsRecognition(c1, c2)' =>
            /\ calls'[c2].phase = "recog"
            /\ ~calls'[c2].rasterized
            /\ calls'[c2].ocrInput.originalCanvas = calls'[c1].ocrInput.originalCanvas]_vars

C29_Witness ==
  /\ SucceededRecognitions = {1, 2}
  /\ calls[2].fn = "processSelectedShapes"
  /\ calls[2].ocrInput.originalCanvas = EarlierSession.initializationData.imageCanvas
  /\ ocrState.isInitialized
  /\ ocrState.lastResult = calls[2].ocrResult

(***************************************************************************)
(* The pure functions, applied to arguments drawn from bounded sets.       *)
(***************************************************************************)
HookIdle ==
  /\ ocrState = InitialOCRState
  /\ img = NoImg
  /\ calls = [c \in CallIds |-> UnusedCall]
  /\ ncalls = 0
  /\ resetMark = Null
  /\ auto = NoAutoRun

Tenth == FDiv(FromInt(1), FromInt(10))
Box(x, y, w, h) == [x |-> FromInt(x), y |-> FromInt(y), w |-> FromInt(w), h |-> FromInt(h)]
Point(x, y) == [x |-> FromInt(x), y |-> FromInt(y)]

\* the geometries of the proxy image: its bounding rectangle and natural size
RectXs == {FromInt(0), FromInt(100), FromInt(-3), Tenth}
RectYs == {FromInt(0), FromInt(200)}
RectWidths == {FromInt(1), FromInt(3), FromInt(300), FromInt(900)}
RectHeights == {FromInt(7), FromInt(150), FromInt(450)}
NaturalWidths == {FromInt(25), FromInt(49), FromInt(900)}
NaturalHeights == {FromInt(25), FromInt(450)}

Geometries ==
  {[rect |-> [x |-> x, y |-> y, width |-> w, height |-> h],
    naturalWidth |-> nw, naturalHeight |-> nh] :
     x \in RectXs, y \in RectYs, w \in RectWidths, h \in RectHeights,
     nw \in NaturalWidths, nh \in NaturalHeights}

\* the pixel box that covers the whole image
OriginBox(g) ==
  [id |-> "origin", x |-> FZero, y |-> FZero, w |-> g.naturalWidth, h |-> g.naturalHeight]

\* the pixel boxes of characters inside the image
PixelBoxes ==
  {[id |-> "c001", x |-> FromInt(90), y |-> FromInt(45), w |-> FromInt(30), h |-> FromInt(45)],
   [id |-> "c002", x |-> FromInt(7), y |-> FromInt(3), w |-> FromInt(5), h |-> FromInt(11)]}

InitMap ==
  /\ HookIdle
  /\ pureIn \in {[box |-> b, img |-> g] : g \in Geometries, b \in PixelBoxes}
                \cup {[box |-> OriginBox(g), img |-> g] : g \in Geometries}
  /\ pureOut = Null

MapStep ==
  /\ pureOut = Null
  /\ pureOut' = [value |-> pixelBoxToPageBox(pureIn.box, pureIn.img)]
  /\ UNCHANGED <<hookVars, pureIn>>

NextMap == MapStep

SpecMap == InitMap /\ [][NextMap]_vars

\* the character boxes of an OCR result
CanonicalBoxes ==
  << [id |-> "c001", char |-> "a", bbox |-> Box(10, 20, 30, 40),
      center |-> Point(25, 40), confidence |-> Tenth],
     [id |-> "c002", char |-> "b", bbox |-> Box(50, 20, 31, 41),
      center |-> Point(66, 41), confidence |-> Tenth] >>

\* the annotations the analysis service can return
MaxErrors == 2
ErrorIds == {"c001", "c002", "c404"}
ErrorBoxes == {Box(10, 20, 30, 40), Box(12, 22, 28, 38)}

ErrorChoices ==
  {[id |-> i, bbox |-> b, center |-> Point(1, 2), errorType |-> "spelling",
    suggestion |-> "s", explanation |-> "e", action |-> "replace"] :
     i \in ErrorIds, b \in ErrorBoxes}

ErrorLists == UNION {[1..n -> ErrorChoices] : n \in 0..MaxErrors}

\* the geometries the page mapping of the annotations works with
ReconGeometries ==
  {[rect |-> [x |-> FromInt(0), y |-> FromInt(0), width |-> FromInt(900),
              height |-> FromInt(450)],
    naturalWidth |-> FromInt(900), naturalHeight |-> FromInt(450)],
   [rect |-> [x |-> FromInt(100), y |-> FromInt(200), width |-> FromInt(300),
              height |-> FromInt(150)],
    naturalWidth |-> FromInt(900), naturalHeight |-> FromInt(450)]}

InitRecon ==
  /\ HookIdle
  /\ pureIn \in {[gptErrors |-> e, ocrCharBoxes |-> CanonicalBoxes, geometry |-> g] :
                   e \in ErrorLists, g \in ReconGeometries}
  /\ pureOut = Null

ReconcileStep ==
  /\ pureOut = Null
  /\ pureOut' = [value   |-> validateAndFixGPTCoordinates(pureIn.gptErrors,
                                                          pureIn.ocrCharBoxes),
                 console |-> unknownIdWarnings(pureIn.gptErrors, pureIn.ocrCharBoxes)]
  /\ UNCHANGED <<hookVars, pureIn>>

NextRecon == ReconcileStep

SpecRecon == InitRecon /\ [][NextRecon]_vars

(***************************************************************************)
(* Properties of the reconciliation and of the mapping                     *)
(***************************************************************************)
Reconciled == pureOut # Null /\ "gptErrors" \in DOMAIN pureIn
Mapped == pureOut # Null /\ "box" \in DOMAIN pureIn
BoxIndexOf(boxes, id) == {j \in 1..Len(boxes) : boxes[j].id = id}
IsKnownId(boxes, id) == BoxIndexOf(boxes, id) # {}
CanonicalOf(boxes, id) == boxes[CHOOSE j \in BoxIndexOf(boxes, id) : TRUE]
XYWH(b) == [x |-> b.x, y |-> b.y, w |-> b.w, h |-> b.h]
KnownAt(i) == IsKnownId(pureIn.ocrCharBoxes, pureIn.gptErrors[i].id)

C6_UnknownIdFlaggedInValue ==
  Reconciled =>
    /\ Len(pureOut.value) = Len(pureIn.gptErrors)
    /\ \A i \in 1..Len(pureIn.gptErrors) :
         ~KnownAt(i) =>
           /\ \A f \in DOMAIN pureIn.gptErrors[i] :
                /\ f \in DOMAIN pureOut.value[i]
                /\ pureOut.value[i][f] = pureIn.gptErrors[i][f]
           /\ \E f \in DOMAIN pureOut.value[i] : f \notin DOMAIN pureIn.gptErrors[i]

\* C6 (amended): an annotation with an unknown id is returned as it came, at the
\* same position of the list, with no field added; the unknown id is reported by a
\* console warning only.
C6_UnknownIdPassthrough ==
  Reconciled =>
    /\ Len(pureOut.value) = Len(pureIn.gptErrors)
    /\ \A i \in 1..Len(pureIn.gptErrors) :
         ~KnownAt(i) =>
           /\ pureOut.value[i] = pureIn.gptErrors[i]
           /\ pureIn.gptErrors[i].id \in pureOut.console

\* the midpoint (x + w/2, y + h/2) of a box
MidpointOf(b) ==
  [x |-> FAdd(b.x, FDiv(b.w, FromInt(2))), y |-> FAdd(b.y, FDiv(b.h, FromInt(2)))]

\* C22: for every annotation with a known id the center returned by
\* validateAndFixGPTCoordinates is the midpoint of the bbox returned with it, when
\* the bbox that came differed from the canonical box and when it matched it.
C22_CenterIsMidpointOfReturnedBox ==
  Reconciled =>
    \A i \in 1..Len(pureIn.gptErrors) :
      KnownAt(i) => pureOut.value[i].center = MidpointOf(pureOut.value[i].bbox)

C6_Witness ==
  /\ Reconciled
  /\ Len(pureIn.gptErrors) = 2
  /\ pureIn.gptErrors[1].id = "c404"
  /\ pureIn.gptErrors[2].id = "c001"
  /\ pureOut.value[1] = pureIn.gptErrors[1]
  /\ pureOut.console = {"c404"}

IsOriginBox == pureIn.box = OriginBox(pureIn.img)

\* C10 (as stated): the pixel box {0, 0, naturalWidth, naturalHeight} maps exactly
\* to the rectangle of the geometry.
C10_RoundTripExact ==
  (Mapped /\ IsOriginBox) =>
    /\ pureOut.value.x = pureIn.img.rect.x
    /\ pureOut.value.y = pureIn.img.rect.y
    /\ pureOut.value.w = pureIn.img.rect.width
    /\ pureOut.value.h = pureIn.img.rect.height

\* 2^-50: four roundings of binary64 arithmetic
RoundingSlack == [s |-> 0, m |-> <<1>>, e |-> -50]
WithinRounding(v, exact, offset) ==
  FLe(FAbs(FSub(v, exact)), FMul(RoundingSlack, FAdd(FAbs(offset), FAbs(exact))))

\* C10 (amended): the pixel box {0, 0, naturalWidth, naturalHeight} maps to the x and
\* y of the rectangle of the geometry exactly, and to its width and height up to the
\* rounding of the floating-point operations: |w - width| <= 2^-50 (|x| + |width|),
\* and likewise for h.
C10_RoundTripUpToRounding ==
  (Mapped /\ IsOriginBox) =>
    /\ pureOut.value.x = pureIn.img.rect.x
    /\ pureOut.value.y = pureIn.img.rect.y
    /\ WithinRounding(pureOut.value.w, pureIn.img.rect.width, pureIn.img.rect.x)
    /\ WithinRounding(pureOut.value.h, pureIn.img.rect.height, pureIn.img.rect.y)

C10_Witness ==
  /\ Mapped /\ IsOriginBox
  /\ pureIn.img.rect.width = FromInt(1)
  /\ pureIn.img.naturalWidth = FromInt(49)
  /\ pureOut.value.x = pureIn.img.rect.x
  /\ pureOut.value.w # pureIn.img.rect.width
  /\ FLt(pureOut.value.w, FromInt(1))

\* the page box as the formulas x = rect.x + box.x * rect.width / naturalWidth,
\* w = box.w * rect.width / naturalWidth (and likewise y, h) give it
FormulaPageBox(box, g) ==
  [x |-> FAdd(g.rect.x, FDiv(FMul(box.x, g.rect.width), g.naturalWidth)),
   y |-> FAdd(g.rect.y, FDiv(FMul(box.y, g.rect.height), g.naturalHeight)),
   w |-> FDiv(FMul(box.w, g.rect.width), g.naturalWidth),
   h |-> FDiv(FMul(box.h, g.rect.height), g.naturalHeight)]

ExampleGeometry ==
  [rect |-> [x |-> FromInt(100), y |-> FromInt(200), width |-> FromInt(300),
             height |-> FromInt(150)],
   naturalWidth |-> FromInt(900), naturalHeight |-> FromInt(450)]
IsExample ==
  /\ pureIn.img = ExampleGeometry
  /\ XYWH(pureIn.box) = Box(90, 45, 30, 45)

\* C11 (as stated): the page box pixelBoxToPageBox returns has exactly the x, y, w
\* and h of the formulas.
C11_MappingFormulaExact ==
  Mapped => XYWH(pureOut.value) = FormulaPageBox(pureIn.box, pureIn.img)

\* C11 (amended): the page box pixelBoxToPageBox returns has the x, y, w and h of
\* the formulas up to the rounding of the floating-point operations (w and h are
\* computed as differences of mapped corners): each differs from the formula by at
\* most 2^-50 times the sum of the magnitudes of the image position and of the
\* formula's x and w (y and h); for rectangle {100,200,300,150}, natural size
\* 900x450 and pixel box {90,45,30,45} the result is exactly {130,215,10,15}.
C11_MappingFormulaUpToRounding ==
  Mapped =>
    LET f == FormulaPageBox(pureIn.box, pureIn.img)
        r == pureIn.img.rect
    IN  /\ WithinRounding(pureOut.value.x, f.x, r.x)
        /\ WithinRounding(pureOut.value.y, f.y, r.y)
        /\ WithinRounding(pureOut.value.w, f.w, FAdd(FAbs(r.x), FAbs(f.x)))
        /\ WithinRounding(pureOut.value.h, f.h, FAdd(FAbs(r.y), FAbs(f.y)))
        /\ IsExample => XYWH(pureOut.value) = Box(130, 215, 10, 15)

C11_Witness ==
  /\ Mapped
  /\ IsExample
  /\ pureOut.value = [id |-> "c001", x |-> FromInt(130), y |-> FromInt(215),
                      w |-> FromInt(10), h |-> FromInt(15)]

(***************************************************************************)
(* lib/coordinateMapping.ts: scale correction and local mapping            *)
(***************************************************************************)
\* the literals 1.5 and 0.8, and the factor of the heuristic
OnePointFive == FDiv(FromInt(3), FromInt(2))
ZeroPointEight == FDiv(FromInt(4), FromInt(5))
HeuristicFactor == FromInt(2)

\* the truthiness of an optional number: undefined, NaN and 0 are falsy
Truthy(x) == IsFinite(x) /\ x.m # <<>>
Field(r, f) == IF f \in DOMAIN r THEN r[f] ELSE Undefined

mapLocalOcrCoordinates(ocrCoord, selectionBounds) ==
  IF "w" \in DOMAIN ocrCoord /\ "h" \in DOMAIN ocrCoord
  THEN [x |-> FAdd(selectionBounds.x, ocrCoord.x),
        y |-> FAdd(selectionBounds.y, ocrCoord.y),
        w |-> ocrCoord.w,
        h |-> ocrCoord.h]
  ELSE [x |-> FAdd(selectionBounds.x, ocrCoord.x),
        y |-> FAdd(selectionBounds.y, ocrCoord.y)]

applyScaleCorrectionToOCRCoordinates(ocrCoord, correctionFactor) ==
  [f \in {"x", "y"} \cup ({"w", "h"} \cap DOMAIN ocrCoord) |->
     FDiv(ocrCoord[f], correctionFactor)]

isOversized(ocrCoord, imageSize) ==
  \/ FLt(FMul(imageSize.width, OnePointFive), ocrCoord.x)
  \/ FLt(FMul(imageSize.height, OnePointFive), ocrCoord.y)
  \/ /\ Truthy(Field(ocrCoord, "w"))
     /\ FLt(FMul(imageSize.width, ZeroPointEight), ocrCoord.w)
  \/ /\ Truthy(Field(ocrCoord, "h"))
     /\ FLt(FMul(imageSize.height, ZeroPointEight), ocrCoord.h)

\* the value of the local appliedScaleFactor when the function returns
appliedScaleFactor(ocrCoord, imageSize, detectedInternalScaleFactor) ==
  IF Truthy(detectedInternalScaleFactor) /\ FLt(FromInt(1), detectedInternalScaleFactor)
  THEN detectedInternalScaleFactor
  ELSE IF isOversized(ocrCoord, imageSize) THEN HeuristicFactor
  ELSE FromInt(1)

mapLocalOcrCoordinatesWithAutoCorrection(ocrCoord, selectionBounds, imageSize, detectedInternalScaleFactor) ==
  LET correctedOcrCoord ==
        IF Truthy(detectedInternalScaleFactor) /\ FLt(FromInt(1), detectedInternalScaleFactor)
        THEN applyScaleCorrectionToOCRCoordinates(ocrCoord, detectedInternalScaleFactor)
        ELSE IF isOversized(ocrCoord, imageSize)
        THEN applyScaleCorrectionToOCRCoordinates(ocrCoord, HeuristicFactor)
        ELSE ocrCoord
  IN  mapLocalOcrCoordinates(correctedOcrCoord, selectionBounds)

\* arguments of the correction
CoordXs == {FromInt(0), FromInt(50), FromInt(100), FromInt(200)}
CoordYs == {FromInt(0), FromInt(40)}
CoordWs == {FromInt(10), FromInt(80), FromInt(90), FromInt(100)}
CoordHs == {FromInt(10), FromInt(90)}
OcrCoords ==
  {[x |-> x, y |-> y, w |-> w, h |-> h] :
     x \in CoordXs, y \in CoordYs, w \in CoordWs, h \in CoordHs}
  \cup {[x |-> x, y |-> y] : x \in CoordXs, y \in CoordYs}
ImageSizes == {[width |-> FromInt(100), height |-> FromInt(100)]}
SelectionBoundsChoices == {Box(0, 0, 100, 100), Box(100, 200, 300, 150)}
DetectedFactors == {Undefined, FromInt(1), FromInt(2)}

InitScale ==
  /\ HookIdle
  /\ pureIn \in {[ocrCoord |-> c, selectionBounds |-> b, imageSize |-> i, detected |-> d] :
                   c \in OcrCoords, b \in SelectionBoundsChoices, i \in ImageSizes,
                   d \in DetectedFactors}
  /\ pureOut = Null

ScaleStep ==
  /\ pureOut = Null
  /\ pureOut' = [value  |-> mapLocalOcrCoordinatesWithAutoCorrection(
                              pureIn.ocrCoord, pureIn.selectionBounds, pureIn.imageSize,
                              pureIn.detected),
                 factor |-> appliedScaleFactor(pureIn.ocrCoord, pureIn.imageSize,
                                               pureIn.detected)]
  /\ UNCHANGED <<hookVars, pureIn>>

NextScale == ScaleStep

SpecScale == InitScale /\ [][NextScale]_vars

Scaled == pureOut # Null /\ "ocrCoord" \in DOMAIN pureIn
NoReportedFactor == ~(IsFinite(pureIn.detected) /\ FLt(FromInt(1), pureIn.detected))
WithinNominal(c, size) ==
  /\ FLe(c.x, size.width)
  /\ FLe(c.y, size.height)
  /\ "w" \in DOMAIN c => FLe(c.w, size.width)
  /\ "h" \in DOMAIN c => FLe(c.h, size.height)

\* C12: with no reported factor above 1, the correction of a box within the nominal
\* image dimensions resolves the factor to 1 and leaves x, y, w and h undivided: the
\* result is the box translated by the selection bounds.
C12_CorrectionIsNoOpWithinNominal ==
  (Scaled /\ NoReportedFactor /\ WithinNominal(pureIn.ocrCoord, pureIn.imageSize)) =>
    /\ pureOut.factor = FromInt(1)
    /\ pureOut.value = mapLocalOcrCoordinates(pureIn.ocrCoord, pureIn.selectionBounds)

\* the engine reports a factor: the argument detectedInternalScaleFactor is a number
EngineReportsFactor == IsFinite(pureIn.detected)

\* C21: when the engine reports a factor, the factor applied is the reported one and
\* the result is the box divided by it and translated, whatever the size heuristic
\* says of the box; when the engine reports none, the heuristic decides the factor.
C21_ReportedFactorIsAuthoritative ==
  Scaled =>
    /\ EngineReportsFactor =>
         /\ pureOut.factor = pureIn.detected
         /\ pureOut.value =
              mapLocalOcrCoordinates(
                applyScaleCorrectionToOCRCoordinates(pureIn.ocrCoord, pureIn.detected),
                pureIn.selectionBounds)
    /\ ~EngineReportsFactor =>
         pureOut.factor = IF isOversized(pureIn.ocrCoord, pureIn.imageSize)
                          THEN HeuristicFactor ELSE FromInt(1)

\* a call that ended in a catch block
FailedCall(c) ==
  calls[c].pc = "done" /\ calls[c].ret # Null /\ calls[c].ret.success = FALSE

\* the message the catch block of call c caught
FatalMessageOf(c) ==
  IF calls[c].fn = "initializeOCR" THEN calls[c].ret.message ELSE calls[c].ret.error.message

\* C14: every call that ended with a fatal error, in the initialization phase or in
\* the recognition phase, has shown a toast whose description is the error message.
C14_FatalErrorShowsToast ==
  \A c \in CallIds :
    FailedCall(c) =>
      /\ calls[c].errorToast # Null
      /\ calls[c].errorToast.description.message = FatalMessageOf(c)

\* call c completes in this step after a reset that happened while it was in flight
CompletesAfterReset(c) ==
  /\ calls[c].resetInFlight
  /\ calls[c].pc \in InFlightPcs
  /\ calls'[c].pc = "done"

\* C16: a phase that was in flight when resetOCRState was called is left to finish,
\* and its completion changes none of isInitialized, initializationData and
\* lastResult.
C16_ResultAfterResetIgnored ==
  [][\A c \in CallIds :
       CompletesAfterReset(c) =>
         /\ ocrState'.isInitialized = ocrState.isInitialized
         /\ ocrState'.initializationData = ocrState.initializationData
         /\ ocrState'.lastResult = ocrState.lastResult]_vars

\* a run of the timer that began on a session that was not initialised and whose
\* initializeOCR succeeded has ended
FreshAutoRunEnded ==
  /\ auto.pc = "ended"
  /\ auto.fresh
  /\ calls[auto.first].ret.success

\* C17: a run of the idle timer on a session that is not initialised makes one
\* initialization and then, after the settle delay, one recognition of the raster
\* that this initialization captured.
C17_AutoRunInitializesThenRecognises ==
  FreshAutoRunEnded =>
    /\ calls[auto.first].phase = "init"
    /\ auto.second # 0
    /\ calls[auto.second].phase = "recog"
    /\ calls[auto.second].ocrInput # Null
    /\ calls[auto.second].ocrInput.originalCanvas = calls[auto.first].imageCanvas

\* call c of processSelectedShapes was made after a successful initialization, on a
\* selection of other shapes than the ones that initialization captured
CalledOnNewSelection(c) ==
  /\ calls[c].fn = "processSelectedShapes"
  /\ calls[c].pc # "unused"
  /\ calls[c].seen.isInitialized
  /\ calls[c].seen.initializationData # Null
  /\ calls[c].selection # {}
  /\ calls[c].selection # calls[c].seen.initializationData.shapeIds

\* C18: a processSelectedShapes call made after a successful initialization, when
\* the selection has changed since, does not recognise the raster of the old
\* selection: it runs the initialization phase, on the new selection.
C18_NewSelectionStartsNewSession ==
  \A c \in CallIds :
    CalledOnNewSelection(c) =>
      /\ calls[c].phase = "init"
      /\ calls[c].shapeIds = calls[c].selection

\* call c has mapped the errors of its analysis to the page
HasMapped(c) == calls[c].pc = "done" /\ calls[c].mapping # Null

\* C19: the geometry of every mapping of the recognition phase is the capture of the
\* initialization of the session: its rectangle is the selection bounds of the
\* initialization data and its natural size is the one of the raster of the
\* initialization data.
C19_MappingGeometryFromOneCapture ==
  \A c \in CallIds :
    HasMapped(c) =>
      /\ calls[c].mapping.rect = calls[c].seen.initializationData.selectionBounds
      /\ calls[c].mapping.natural = calls[c].seen.initializationData.imageCanvas.pixels

(***************************************************************************)
(* lib/smartPositioning.ts: placement of the suggestion cards              *)
(***************************************************************************)
RECURSIVE BToNatFrom(_, _)
BToNatFrom(a, i) == IF i > Len(a) THEN 0 ELSE a[i] + Base * BToNatFrom(a, i + 1)
BToNat(a) == BToNatFrom(a, 1)

\* Math.floor of a number of small magnitude, as an integer
FFloorInt(x) ==
  IF x.m = <<>> THEN 0
  ELSE IF x.e >= 0 THEN (IF x.s = 1 THEN -1 ELSE 1) * BToNat(BShl(x.m, x.e))
  ELSE IF x.s = 0 THEN BToNat(BShr(x.m, -x.e))
  ELSE -BToNat(BShr(x.m, -x.e)) - 1

FGe(x, y) == FLe(y, x)
FGt(x, y) == FLt(y, x)
FMin(x, y) == IF FLt(y, x) THEN y ELSE x
FMax(x, y) == IF FLt(x, y) THEN y ELSE x

\* the literals of the scoring
Half == FDiv(FromInt(1), FromInt(2))
ZeroPointSix == FDiv(FromInt(3), FromInt(5))
ZeroPointThree == FDiv(FromInt(3), FromInt(10))
ZeroPointFour == FDiv(FromInt(2), FromInt(5))
ZeroPointTwo == FDiv(FromInt(1), FromInt(5))

\* DISTANCE_OPTIONS and the eight directions, in the order of the source
DistanceOptions == <<80, 120, 160, 200>>
Directions ==
  << [name |-> "N", dx |-> 0, dy |-> -1], [name |-> "NE", dx |-> 1, dy |-> -1],
     [name |-> "E", dx |-> 1, dy |-> 0], [name |-> "SE", dx |-> 1, dy |-> 1],
     [name |-> "S", dx |-> 0, dy |-> 1], [name |-> "SW", dx |-> -1, dy |-> 1],
     [name |-> "W", dx |-> -1, dy |-> 0], [name |-> "NW", dx |-> -1, dy |-> -1] >>

\* the sum of grid.density over the rows r0..r1 and columns c0..c1; the grid is
\* given by the cell rectangles of the shapes, each of weight 1.0
RECURSIVE densitySum(_, _, _, _, _, _)
densitySum(shapes, i, r0, r1, c0, c1) ==
  IF i > Len(shapes) THEN 0
  ELSE LET rows == IntMin(r1, shapes[i].r1) - IntMax(r0, shapes[i].r0) + 1
           cols == IntMin(c1, shapes[i].c1) - IntMax(c0, shapes[i].c0) + 1
       IN  (IF rows > 0 /\ cols > 0 THEN rows * cols ELSE 0)
             + densitySum(shapes, i + 1, r0, r1, c0, c1)

\* the penalty returned for cellCount cells of total density totalDensity
densityPenaltyOf(cellCount, totalDensity) ==
  IF cellCount > 0
  THEN FMul(FDiv(FromInt(totalDensity), FromInt(cellCount)), FromInt(25))
  ELSE FZero

\* the loops over the cells of rows r0..r1 and columns c0..c1 of the grid
densityOfCells(grid, r0, r1, c0, c1) ==
  IF r1 >= r0 /\ c1 >= c0
  THEN densityPenaltyOf((r1 - r0 + 1) * (c1 - c0 + 1),
                        densitySum(grid.shapes, 1, r0, r1, c0, c1))
  ELSE densityPenaltyOf(0, 0)

densityOverCells(position, cardSize, viewportBounds, grid, cellWidth, cellHeight) ==
  densityOfCells(
    grid,
    IntMax(0, FFloorInt(FDiv(FSub(position.y, viewportBounds.y), cellHeight))),
    IntMin(grid.height - 1,
           FFloorInt(FDiv(FSub(FAdd(position.y, cardSize.height), viewportBounds.y),
                          cellHeight))),
    IntMax(0, FFloorInt(FDiv(FSub(position.x, viewportBounds.x), cellWidth))),
    IntMin(grid.width - 1,
           FFloorInt(FDiv(FSub(FAdd(position.x, cardSize.width), viewportBounds.x),
                          cellWidth))))

calculateDensityPenalty(position, cardSize, viewportBounds, grid) ==
  densityOverCells(position, cardSize, viewportBounds, grid,
                   FDiv(viewportBounds.w, FromInt(grid.width)),
                   FDiv(viewportBounds.h, FromInt(grid.height)))

boundaryBonusOf(minDistanceToEdge) ==
  IF FGe(minDistanceToEdge, FromInt(40)) /\ FLe(minDistanceToEdge, FromInt(80))
  THEN FromInt(1)
  ELSE IF FGe(minDistanceToEdge, FromInt(20)) /\ FLe(minDistanceToEdge, FromInt(120))
  THEN Half
  ELSE FZero

\* Math.min(distToLeft, distToTop, distToRight, distToBottom)
calculateBoundaryBonus(position, cardSize, viewportBounds) ==
  boundaryBonusOf(
    FMin(FMin(FSub(position.x, viewportBounds.x), FSub(position.y, viewportBounds.y)),
         FMin(FSub(FAdd(viewportBounds.x, viewportBounds.w),
                   FAdd(position.x, cardSize.width)),
              FSub(FAdd(viewportBounds.y, viewportBounds.h),
                   FAdd(position.y, cardSize.height)))))

\* Math.sqrt is monotone and exact on squares, and the sums v of this model are
\* multiples of 1/4 far below 2^53: sqrt(v) >= t iff v >= t*t, and sqrt(v) <= t iff
\* v <= t*t, for the integer thresholds t of the source
distanceBetween(v, lo, hi) == FGe(v, FromInt(lo * lo)) /\ FLe(v, FromInt(hi * hi))

distanceBonusOf(v) ==
  IF distanceBetween(v, 100, 150) THEN FromInt(1)
  ELSE IF distanceBetween(v, 80, 200) THEN ZeroPointSix
  ELSE IF distanceBetween(v, 60, 250) THEN ZeroPointThree
  ELSE FZero

sumOfSquares(dx, dy) == FAdd(FMul(dx, dx), FMul(dy, dy))

calculateDistanceBonus(position, errorPosition) ==
  distanceBonusOf(sumOfSquares(FSub(position.x, errorPosition.x),
                               FSub(position.y, errorPosition.y)))

directionBonusOf(dx, dy) ==
  IF FGt(dx, FZero) /\ FLt(dy, FZero) THEN FromInt(1)
  ELSE IF FGt(dx, FZero) /\ FGt(dy, FZero) THEN ZeroPointEight
  ELSE IF FGt(dx, FZero) /\ FLt(FAbs(dy), FromInt(20)) THEN ZeroPointSix
  ELSE IF FLt(dx, FZero) /\ FLt(dy, FZero) THEN ZeroPointFour
  ELSE ZeroPointTwo

calculateDirectionBonus(position, errorPosition) ==
  directionBonusOf(FSub(position.x, errorPosition.x), FSub(position.y, errorPosition.y))

calculatePositionScore(position, cardSize, errorPosition, viewportBounds, grid) ==
  FMax(FZero,
       FAdd(FAdd(FAdd(FSub(FromInt(100),
                           FMul(calculateDensityPenalty(position, cardSize, viewportBounds, grid),
                                FromInt(40))),
                      FMul(calculateBoundaryBonus(position, cardSize, viewportBounds),
                           FromInt(20))),
                 FMul(calculateDistanceBonus(position, errorPosition), FromInt(25))),
            FMul(calculateDirectionBonus(position, errorPosition), FromInt(15))))

\* candidates.sort((a, b) => b.score - a.score) is stable: a candidate goes behind
\* every candidate whose score is not below its own
RECURSIVE insertByScore(_, _, _)
insertByScore(sorted, c, i) ==
  IF i > Len(sorted) THEN Append(sorted, c)
  ELSE IF FLt(sorted[i].score, c.score)
  THEN SubSeq(sorted, 1, i - 1) \o <<c>> \o SubSeq(sorted, i, Len(sorted))
  ELSE insertByScore(sorted, c, i + 1)

\* the candidate at (candidateX, candidateY), or Undefined outside the viewport
candidateOf(candidateX, candidateY, dir, distance, errorPosition, cardSize, viewportBounds, grid) ==
  IF /\ FGe(candidateX, viewportBounds.x)
     /\ FLe(FAdd(candidateX, cardSize.width), FAdd(viewportBounds.x, viewportBounds.w))
     /\ FGe(candidateY, viewportBounds.y)
     /\ FLe(FAdd(candidateY, cardSize.height), FAdd(viewportBounds.y, viewportBounds.h))
  THEN [x |-> candidateX, y |-> candidateY,
        score |-> calculatePositionScore([x |-> candidateX, y |-> candidateY],
                                         cardSize, errorPosition, viewportBounds, grid),
        direction |-> dir.name, avoided_shapes |-> 0, distance_to_error |-> distance]
  ELSE Undefined

\* the candidate of direction dir and distance option distance
candidateAt(dir, distance, errorPosition, cardSize, viewportBounds, grid) ==
  candidateOf(FAdd(errorPosition.x, FromInt(dir.dx * distance)),
              FAdd(errorPosition.y, FromInt(dir.dy * distance)),
              dir, distance, errorPosition, cardSize, viewportBounds, grid)

\* candidates.push(c) and the sort, for a candidate inside the viewport
withCandidate(acc, c) == IF c = Undefined THEN acc ELSE insertByScore(acc, c, 1)

\* the candidates of the pairs (direction, distance) from number n on, sorted into acc
RECURSIVE candidatesFrom(_, _, _, _, _, _)
RECURSIVE candidatesAfter(_, _, _, _, _, _)
candidatesFrom(n, acc, errorPosition, cardSize, viewportBounds, grid) ==
  IF n > Len(Directions) * Len(DistanceOptions) THEN acc
  ELSE candidatesAfter(n,
                       withCandidate(acc,
                                     candidateAt(Directions[((n - 1) \div Len(DistanceOptions)) + 1],
                                                 DistanceOptions[((n - 1) % Len(DistanceOptions)) + 1],
                                                 errorPosition, cardSize, viewportBounds, grid)),
                       errorPosition, cardSize, viewportBounds, grid)

\* the loop goes on with the candidates found so far
candidatesAfter(n, acc, errorPosition, cardSize, viewportBounds, grid) ==
  IF Len(acc) >= 0
  THEN candidatesFrom(n + 1, acc, errorPosition, cardSize, viewportBounds, grid)
  ELSE acc

generatePositionCandidates(errorPosition, cardSize, viewportBounds, grid) ==
  candidatesFrom(1, <<>>, errorPosition, cardSize, viewportBounds, grid)

\* the test of the filter: the card at the candidate touches a used rectangle
overlapsUsed(candidate, cardSize, used) ==
  ~(\/ FGe(candidate.x, FAdd(used.x, used.w))
    \/ FLe(FAdd(candidate.x, cardSize.width), used.x)
    \/ FGe(candidate.y, FAdd(used.y, used.h))
    \/ FLe(FAdd(candidate.y, cardSize.height), used.y))

isFree(candidate, cardSize, usedPositions) ==
  ~\E u \in 1..Len(usedPositions) : overlapsUsed(candidate, cardSize, usedPositions[u])

\* the buffer around a placed card
PlacementBuffer == FromInt(20)

\* the rectangle recorded in usedPositions for a placed card
usedRectOf(bestPosition, cardSize) ==
  [x |-> FSub(bestPosition.x, PlacementBuffer),
   y |-> FSub(bestPosition.y, PlacementBuffer),
   w |-> FAdd(cardSize.width, FAdd(PlacementBuffer, PlacementBuffer)),
   h |-> FAdd(cardSize.height, FAdd(PlacementBuffer, PlacementBuffer))]

placementAt(x, y, cardSize, errorCenter, index) ==
  [x |-> x, y |-> y, width |-> cardSize.width, height |-> cardSize.height,
   leadLineStart |-> errorCenter,
   leadLineEnd |-> [x |-> FAdd(x, FDiv(cardSize.width, FromInt(2))),
                    y |-> FAdd(y, FDiv(cardSize.height, FromInt(2)))],
   animationDelay |-> index * 800]

\* a turn that makes no placement when the filter leaves no candidate
placeCardOrSkip(lay, errorCenter, free, index, cardSize) ==
  IF Len(free) > 0
  THEN [placements    |-> Append(lay.placements,
                                 placementAt(free[1].x, free[1].y, cardSize, errorCenter,
                                             index)),
        usedPositions |-> Append(lay.usedPositions, usedRectOf(free[1], cardSize)),
        forced        |-> lay.forced]
  ELSE lay

\* the two branches of a turn of errors.forEach, for the candidates free that are
\* left by the filter
placeCard(lay, errorCenter, free, index, cardSize) ==
  IF Len(free) > 0
  THEN [placements    |-> Append(lay.placements,
                                 placementAt(free[1].x, free[1].y, cardSize, errorCenter,
                                             index)),
        usedPositions |-> Append(lay.usedPositions, usedRectOf(free[1], cardSize)),
        forced        |-> lay.forced]
  ELSE [placements    |-> Append(lay.placements,
                                 placementAt(FAdd(errorCenter.x, FromInt(100)),
                                             FSub(errorCenter.y,
                                                  FDiv(cardSize.height, FromInt(2))),
                                             cardSize, errorCenter, index)),
        usedPositions |-> lay.usedPositions,
        forced        |-> lay.forced \cup {index + 1}]

placeAround(lay, errorCenter, index, viewportBounds, grid, cardSize) ==
  placeCard(lay, errorCenter,
            SelectSeq(generatePositionCandidates(errorCenter, cardSize, viewportBounds, grid),
                      LAMBDA c : isFree(c, cardSize, lay.usedPositions)),
            index, cardSize)

\* one turn of errors.forEach: lay is the placements, the used rectangles and the
\* positions of the placements made by the else branch
layoutStep(lay, error, index, viewportBounds, grid, cardSize) ==
  placeAround(lay,
              [x |-> FAdd(error.bbox.x, FDiv(error.bbox.w, FromInt(2))),
               y |-> FAdd(error.bbox.y, FDiv(error.bbox.h, FromInt(2)))],
              index, viewportBounds, grid, cardSize)

RECURSIVE layoutFrom(_, _, _, _, _, _)
RECURSIVE layoutAfter(_, _, _, _, _, _)
layoutFrom(lay, errors, i, viewportBounds, grid, cardSize) ==
  IF i > Len(errors) THEN lay
  ELSE layoutAfter(layoutStep(lay, errors[i], i - 1, viewportBounds, grid, cardSize),
                   errors, i, viewportBounds, grid, cardSize)

\* errors.forEach goes on after the turn for errors[i], which has made one placement
layoutAfter(lay, errors, i, viewportBounds, grid, cardSize) ==
  IF Len(lay.placements) = i
  THEN layoutFrom(lay, errors, i + 1, viewportBounds, grid, cardSize)
  ELSE lay

layoutOf(errors, viewportBounds, grid, cardSize) ==
  layoutFrom([placements |-> <<>>, usedPositions |-> <<>>, forced |-> {}],
             errors, 1, viewportBounds, grid, cardSize)

optimizeMultipleErrorLayout(errors, viewportBounds, grid, cardSize) ==
  layoutOf(errors, viewportBounds, grid, cardSize).placements

\* the default value of the parameter cardSize
DefaultCardSize == [width |-> FromInt(180), height |-> FromInt(120)]

\* arguments of the layout
MaxLayoutErrors == 2
LayoutBoxes == <<Box(10, 10, 20, 30), Box(400, 300, 20, 20), Box(420, 310, 20, 20)>>
LayoutErrors == {[id |-> "c001", bbox |-> LayoutBoxes[i]] : i \in DOMAIN LayoutBoxes}
\* the errors of a page in reading order, at most MaxLayoutErrors of them
LayoutErrorLists == {SelectSeq([i \in DOMAIN LayoutBoxes |-> [id |-> "c001", bbox |-> LayoutBoxes[i]]], LAMBDA e : e \in S) : S \in {T \in SUBSET LayoutErrors : Cardinality(T) <= MaxLayoutErrors}}
GridSize == 32
EmptyGrid == [width |-> GridSize, height |-> GridSize, shapes |-> <<>>]
DenseGrid == [width |-> GridSize, height |-> GridSize,
              shapes |-> <<[r0 |-> 10, r1 |-> 14, c0 |-> 12, c1 |-> 15]>>]
\* a viewport with room around the errors, one with room for a few cards only, and
\* one narrower than a card
Scenes == {[viewportBounds |-> Box(0, 0, 1000, 800), grid |-> DenseGrid],
           [viewportBounds |-> Box(0, 0, 1000, 800), grid |-> EmptyGrid],
           [viewportBounds |-> Box(0, 0, 600, 400), grid |-> EmptyGrid],
           [viewportBounds |-> Box(0, 0, 600, 400), grid |-> DenseGrid],
           [viewportBounds |-> Box(0, 0, 300, 200), grid |-> EmptyGrid],
           [viewportBounds |-> Box(0, 0, 300, 200), grid |-> DenseGrid],
           [viewportBounds |-> Box(0, 0, 100, 100), grid |-> EmptyGrid],
           [viewportBounds |-> Box(0, 0, 100, 100), grid |-> DenseGrid]}

InitLayout ==
  /\ HookIdle
  /\ pureIn \in {[layoutErrors |-> e, viewportBounds |-> sc.viewportBounds, grid |-> sc.grid] :
                   e \in LayoutErrorLists, sc \in Scenes}
  /\ pureOut = Null

\* value is what the call returns; forced is the set of positions in it that the else
\* branch made, which the call does not return
LayoutStep ==
  /\ pureOut = Null
  /\ \E lay \in {layoutOf(pureIn.layoutErrors, pureIn.viewportBounds, pureIn.grid,
                            DefaultCardSize)} :
       pureOut' = [value |-> lay.placements, forced |-> lay.forced]
  /\ UNCHANGED <<hookVars, pureIn>>

NextLayout == LayoutStep

SpecLayout == InitLayout /\ [][NextLayout]_vars

LaidOut == pureOut # Null /\ "layoutErrors" \in DOMAIN pureIn
Footprint(p) == [x |-> p.x, y |-> p.y, w |-> p.width, h |-> p.height]
Enlarged(r) ==
  [x |-> FSub(r.x, PlacementBuffer), y |-> FSub(r.y, PlacementBuffer),
   w |-> FAdd(r.w, FAdd(PlacementBuffer, PlacementBuffer)),
   h |-> FAdd(r.h, FAdd(PlacementBuffer, PlacementBuffer))]
Intersect(a, b) ==
  /\ FLt(a.x, FAdd(b.x, b.w))
  /\ FLt(b.x, FAdd(a.x, a.w))
  /\ FLt(a.y, FAdd(b.y, b.h))
  /\ FLt(b.y, FAdd(a.y, a.h))
\* the fields of SuggestionPlacement; a mark of the fallback would be a further field
PlacementFields ==
  {"x", "y", "width", "height", "leadLineStart", "leadLineEnd", "animationDelay"}
MarkedInResult(p) == DOMAIN p \ PlacementFields # {}
PlacementPairs ==
  {pr \in (1..Len(pureOut.value)) \X (1..Len(pureOut.value)) : pr[1] < pr[2]}

\* C13: two placements returned by one call keep the buffer between them (the
\* footprint of the earlier one, enlarged by the buffer on every side, does not
\* intersect the footprint of the later one) unless one of the two was made by the
\* fallback branch, and then the returned placement shows that it was.
C13_NoOverlapUnlessMarkedFallback ==
  LaidOut =>
    \A pr \in PlacementPairs :
      Intersect(Enlarged(Footprint(pureOut.value[pr[1]])), Footprint(pureOut.value[pr[2]])) =>
        \E i \in {pr[1], pr[2]} : i \in pureOut.forced /\ MarkedInResult(pureOut.value[i])

\* the fixed offset to the right of the anchor
FallbackPlacement(center, cardSize) ==
  [x |-> FAdd(center.x, FromInt(100)),
   y |-> FSub(center.y, FDiv(cardSize.height, FromInt(2)))]

\* no card fits into the viewport: no candidate exists for any error
NoRoomForCard ==
  \/ FLt(pureIn.viewportBounds.w, DefaultCardSize.width)
  \/ FLt(pureIn.viewportBounds.h, DefaultCardSize.height)

\* C24: optimizeMultipleErrorLayout returns one placement for each error, in the
\* order of the errors (placement i has the center of error i as its anchor and the
\* delay of position i); a placement made when the filter left no candidate is at
\* the fixed offset (center.x + 100, center.y - cardHeight / 2), and when no card
\* fits into the viewport every placement is made that way.
C24_OnePlacementPerErrorWithFallback ==
  LaidOut =>
    /\ Len(pureOut.value) = Len(pureIn.layoutErrors)
    /\ \A i \in 1..Len(pureIn.layoutErrors) :
         /\ pureOut.value[i].leadLineStart = MidpointOf(pureIn.layoutErrors[i].bbox)
         /\ pureOut.value[i].animationDelay = (i - 1) * 800
         /\ NoRoomForCard => i \in pureOut.forced
         /\ i \in pureOut.forced =>
              [x |-> pureOut.value[i].x, y |-> pureOut.value[i].y]
                = FallbackPlacement(MidpointOf(pureIn.layoutErrors[i].bbox), DefaultCardSize)

C24_Witness ==
  /\ LaidOut
  /\ Len(pureIn.layoutErrors) = 2
  /\ pureIn.layoutErrors[2].bbox = Box(400, 300, 20, 20)
  /\ pureOut.forced = {2}
  /\ pureOut.value[2].x = FromInt(510)
  /\ pureOut.value[2].y = FromInt(250)

(***************************************************************************)
(* The objects of a recognition run.  The heap is the sequence of the      *)
(* objects created so far; a field that holds an object holds its          *)
(* reference.  The heap starts with what processImageOCR returned and what *)
(* the analysis service answered; the steps are the ones the recognition   *)
(* phase and lib/coordinateMapping.ts apply to the character boxes.        *)
(***************************************************************************)
Ref(n) == [ref |-> n]
IsRef(v) == DOMAIN v = {"ref"}

\* a new object
alloc(heap, obj) == [heap |-> Append(heap, obj), ref |-> Ref(Len(heap) + 1)]

\* a "copy" that hands out the object itself
spreadCopyShared(heap, r) == [heap |-> heap, ref |-> r]

\* { ...object }: a new object with the fields of the object at r
spreadCopy(heap, r) == alloc(heap, heap[r.ref])

\* an object with bbox and center read through their references
Deref(heap, r) ==
  [f \in DOMAIN heap[r.ref] |->
     IF f \in {"bbox", "center"} THEN heap[heap[r.ref][f].ref] ELSE heap[r.ref][f]]

\* the object obj with the bbox object b and the center object c, both just created
objectOf(b, c, obj) == alloc(c.heap, [obj EXCEPT !.bbox = b.ref, !.center = c.ref])

\* the objects of one character or annotation: its bbox, its center, itself
storeAfterBbox(b, box) == objectOf(b, alloc(b.heap, box.center), box)
storeBox(heap, box) == storeAfterBbox(alloc(heap, box.bbox), box)

RECURSIVE storeBoxesFrom(_, _, _, _)
RECURSIVE storeBoxesAfter(_, _, _, _)
storeBoxesFrom(heap, refs, boxes, i) ==
  IF i > Len(boxes) THEN [heap |-> heap, refs |-> refs]
  ELSE storeBoxesAfter(storeBox(heap, boxes[i]), refs, boxes, i)

storeBoxesAfter(o, refs, boxes, i) ==
  storeBoxesFrom(o.heap, Append(refs, o.ref), boxes, i + 1)

\* the factor processImage detects: 2 when the first character is higher than half
\* of the preprocessed canvas, else 1
internalScaleFactorOf(charBoxes, preprocessedSize) ==
  IF Len(charBoxes) > 0
     /\ FGt(FDiv(charBoxes[1].bbox.h, preprocessedSize.height), Half)
  THEN FromInt(2)
  ELSE FromInt(1)

\* the result of processImageOCR: charBoxes as the engine gave them, and metadata with
\* the size of the original canvas and the factor detected
engineResultOf(cb, md) == [heap |-> md.heap, charBoxes |-> cb.refs, metadata |-> md.ref]

engineResultWith(cb, charBoxes, originalSize, preprocessedSize) ==
  engineResultOf(cb,
                 alloc(cb.heap,
                       [imageWidth |-> originalSize.width, imageHeight |-> originalSize.height,
                        detectedInternalScaleFactor |->
                          internalScaleFactorOf(charBoxes, preprocessedSize)]))

EngineResult(charBoxes, originalSize, preprocessedSize) ==
  engineResultWith(storeBoxesFrom(<<>>, <<>>, charBoxes, 1), charBoxes, originalSize,
                   preprocessedSize)

\* the answer of analyzeHandwritingErrors, parsed from JSON: objects of its own
analysisResultOf(res) == [heap |-> res.heap, result |-> res.ref]

analysisResultWith(es, gptErrors) ==
  analysisResultOf(alloc(es.heap, [hasErrors |-> Len(gptErrors) > 0, results |-> es.refs]))

AnalysisResult(heap, gptErrors) ==
  analysisResultWith(storeBoxesFrom(heap, <<>>, gptErrors, 1), gptErrors)

\* the references of the character boxes of the engine: every character object with
\* its bbox and its center
OcrRefsOf(heap, charBoxes) ==
  UNION {{charBoxes[i], heap[charBoxes[i].ref].bbox, heap[charBoxes[i].ref].center} :
           i \in 1..Len(charBoxes)}

\* charMap.get(error.id) as a reference
charMapGetRef(heap, charBoxes, id) ==
  LET hits == {i \in 1..Len(charBoxes) : heap[charBoxes[i].ref].id = id}
  IN  IF hits = {} THEN Undefined
      ELSE charBoxes[CHOOSE i \in hits : \A j \in hits : j <= i]

\* { ...error, bbox: { ...ocrChar.bbox }, center: { ...ocrChar.center } }, after the
\* copy b of the bbox
fixedAfterBbox(b, center, obj) == objectOf(b, spreadCopy(b.heap, center), obj)

fixOneGPTErrorWith(heap, error, ocrChar) ==
  IF ocrChar = Undefined THEN [heap |-> heap, ref |-> error]
  ELSE IF ~coordsMatch(Deref(heap, error), Deref(heap, ocrChar))
  THEN fixedAfterBbox(spreadCopy(heap, heap[ocrChar.ref].bbox), heap[ocrChar.ref].center,
                      heap[error.ref])
  ELSE [heap |-> heap, ref |-> error]

\* the callback of gptErrors.map on the heap: the annotation itself, or a new
\* annotation with copies of the bbox and of the center of the OCR character
fixOneGPTErrorAt(heap, error, charBoxes) ==
  fixOneGPTErrorWith(heap, error, charMapGetRef(heap, charBoxes, heap[error.ref].id))

RECURSIVE fixGPTErrorsFrom(_, _, _, _, _)
RECURSIVE fixGPTErrorsAfter(_, _, _, _, _)
fixGPTErrorsFrom(heap, refs, errors, charBoxes, i) ==
  IF i > Len(errors) THEN [heap |-> heap, refs |-> refs]
  ELSE fixGPTErrorsAfter(fixOneGPTErrorAt(heap, errors[i], charBoxes), refs, errors,
                         charBoxes, i)

fixGPTErrorsAfter(r, refs, errors, charBoxes, i) ==
  fixGPTErrorsFrom(r.heap, Append(refs, r.ref), errors, charBoxes, i + 1)

\* the literal { ...error, x, y, w, h, char } handed to mapOcrBoxesToPage
literalOf(err, bb) ==
  [f \in DOMAIN err \cup {"x", "y", "w", "h", "char"} |->
     IF f \in DOMAIN err THEN err[f]
     ELSE IF f = "char" THEN err.suggestion
     ELSE bb[f]]

convertedAfterBbox(b, page, err) ==
  objectOf(b,
           alloc(b.heap, [x |-> FAdd(page.x, FDiv(page.w, FromInt(2))),
                          y |-> FAdd(page.y, FDiv(page.h, FromInt(2)))]),
           err)

\* the annotation returned for the page box: the annotation itself when a
\* coordinate is not a number, else a new one with the page box and its center
convertedOf(heap, error, err, page) ==
  IF ~IsFinite(page.x) \/ ~IsFinite(page.y) \/ ~IsFinite(page.w) \/ ~IsFinite(page.h)
  THEN [heap |-> heap, ref |-> error]
  ELSE convertedAfterBbox(alloc(heap, XYWH(page)), page, err)

convertPage(heap, error, err, bb, page) ==
  convertedOf(alloc(alloc(heap, literalOf(err, bb)).heap, page).heap, error, err, page)

convertBox(heap, error, err, bb, geometry) ==
  convertPage(heap, error, err, bb,
              pixelBoxToPageBox([id |-> err.id, x |-> bb.x, y |-> bb.y,
                                 w |-> bb.w, h |-> bb.h, bbox |-> bb], geometry))

\* the conversion of one annotation to page space: the literal handed to
\* mapOcrBoxesToPage, the page box, and the annotation returned for it
convertErrorAt(heap, error, geometry) ==
  convertBox(heap, error, heap[error.ref], heap[heap[error.ref].bbox.ref], geometry)

RECURSIVE convertErrorsFrom(_, _, _, _, _)
RECURSIVE convertErrorsAfter(_, _, _, _, _)
convertErrorsFrom(heap, refs, errors, geometry, i) ==
  IF i > Len(errors) THEN [heap |-> heap, refs |-> refs]
  ELSE convertErrorsAfter(convertErrorAt(heap, errors[i], geometry), refs, errors,
                          geometry, i)

convertErrorsAfter(r, refs, errors, geometry, i) ==
  convertErrorsFrom(r.heap, Append(refs, r.ref), errors, geometry, i + 1)

\* the sizes of the canvases of a run: the original one and the preprocessed one
OriginalSize == [width |-> FromInt(900), height |-> FromInt(450)]
PreprocessedSizes == {[width |-> FromInt(1800), height |-> FromInt(900)],
                      [width |-> FromInt(120), height |-> FromInt(70)]}
\* the annotations of a run: for a character of the result or for none of them
BoxErrorLists ==
  UNION {[1..n -> {e \in ErrorChoices : e.id \in {"c001", "c404"}}] : n \in 0..MaxErrors}
CorrectionFactors == {FromInt(2)}

InitBoxes ==
  /\ HookIdle
  /\ \E e \in BoxErrorLists, g \in ReconGeometries, size \in PreprocessedSizes :
       \E eng \in {EngineResult(CanonicalBoxes, OriginalSize, size)} :
         \E ana \in {AnalysisResult(eng.heap, e)} :
           /\ pureIn = [heap0 |-> ana.heap, charBoxes |-> eng.charBoxes,
                        metadata |-> eng.metadata, analysis |-> ana.result,
                        geometry |-> g]
           /\ pureOut = [heap |-> ana.heap, pc |-> "metadata", converted |-> <<>>,
                         corrected |-> Null]

\* ocrResult.metadata.imageWidth = width; ocrResult.metadata.imageHeight = height
OverrideMetadata ==
  /\ pureOut.pc = "metadata"
  /\ pureOut' = [pureOut EXCEPT
                   !.heap[pureIn.metadata.ref].imageWidth = OriginalSize.width,
                   !.heap[pureIn.metadata.ref].imageHeight = OriginalSize.height,
                   !.pc = "reconcile"]
  /\ UNCHANGED <<hookVars, pureIn>>

\* errorAnalysisResult.result.results = validateAndFixGPTCoordinates(..., charBoxes)
ReconcileBoxes ==
  /\ pureOut.pc = "reconcile"
  /\ \E r \in {fixGPTErrorsFrom(pureOut.heap, <<>>,
                                 pureOut.heap[pureIn.analysis.ref].results,
                                 pureIn.charBoxes, 1)} :
       pureOut' = [pureOut EXCEPT
                     !.heap = [r.heap EXCEPT ![pureIn.analysis.ref].results = r.refs],
                     !.pc = "convert"]
  /\ UNCHANGED <<hookVars, pureIn>>

\* convertedErrors: the annotations mapped to page space
ConvertBoxes ==
  /\ pureOut.pc = "convert"
  /\ \E r \in {convertErrorsFrom(pureOut.heap, <<>>,
                                  pureOut.heap[pureIn.analysis.ref].results,
                                  pureIn.geometry, 1)} :
       pureOut' = [pureOut EXCEPT !.heap = r.heap, !.converted = r.refs, !.pc = "done"]
  /\ UNCHANGED <<hookVars, pureIn>>

\* applyScaleCorrectionToOCRCoordinates on the bbox of a character
CorrectBox ==
  /\ pureOut.corrected = Null
  /\ \E i \in 1..Len(pureIn.charBoxes), f \in CorrectionFactors :
       \E r \in {alloc(pureOut.heap,
                       applyScaleCorrectionToOCRCoordinates(
                         pureOut.heap[pureOut.heap[pureIn.charBoxes[i].ref].bbox.ref], f))} :
         pureOut' = [pureOut EXCEPT !.heap = r.heap, !.corrected = r.ref]
  /\ UNCHANGED <<hookVars, pureIn>>

NextBoxes == OverrideMetadata \/ ReconcileBoxes \/ ConvertBoxes \/ CorrectBox

SpecBoxes == InitBoxes /\ [][NextBoxes]_vars

OnHeap == pureOut # Null /\ "heap0" \in DOMAIN pureIn
OcrRefs == OcrRefsOf(pureIn.heap0, pureIn.charBoxes)
ResultRefs == pureOut.heap[pureIn.analysis.ref].results
ConvertedRefs == pureOut.converted

\* the boxes derived from the character boxes: the bbox and center of every
\* reconciled and of every converted annotation, and the scale-corrected box
DerivedBoxRefs ==
  UNION {{pureOut.heap[ResultRefs[i].ref].bbox, pureOut.heap[ResultRefs[i].ref].center} :
           i \in 1..Len(ResultRefs)}
  \cup UNION {{pureOut.heap[ConvertedRefs[i].ref].bbox,
               pureOut.heap[ConvertedRefs[i].ref].center} : i \in 1..Len(ConvertedRefs)}
  \cup (IF pureOut.corrected = Null THEN {} ELSE {pureOut.corrected})

\* C15: the objects of ocrResult.charBoxes (every character, its bbox and its
\* center) hold the values the engine returned, through the metadata override, the
\* reconciliation, the scale correction and the page mapping, and every reconciled,
\* corrected or mapped box is an object of its own, none of them a box of charBoxes.
C15_CharBoxesNeverMutated ==
  OnHeap =>
    /\ \A r \in OcrRefs : pureOut.heap[r.ref] = pureIn.heap0[r.ref]
    /\ DerivedBoxRefs \cap OcrRefs = {}

C15_Witness ==
  /\ OnHeap
  /\ pureOut.pc = "done"
  /\ pureOut.corrected # Null
  /\ pureOut.heap # pureIn.heap0
  /\ \E i \in 1..Len(ConvertedRefs) :
       /\ pureOut.heap[ConvertedRefs[i].ref].id = "c001"
       /\ pureIn.heap0[pureIn.heap0[pureIn.heap0[pureIn.analysis.ref].results[i].ref].bbox.ref]
            = Box(12, 22, 28, 38)
       /\ pureOut.heap[pureOut.heap[ResultRefs[i].ref].bbox.ref] = Box(10, 20, 30, 40)

\* the factor the OCR result of the run reports
DetectedFactor == pureOut.heap[pureIn.metadata.ref].detectedInternalScaleFactor

\* the pixel box of annotation i before the mapping, and the page box made of it
PixelBoxOfResult(i) == pureOut.heap[pureOut.heap[ResultRefs[i].ref].bbox.ref]
PageBoxOfConverted(i) == pureOut.heap[pureOut.heap[ConvertedRefs[i].ref].bbox.ref]

MaxRunErrors == 2
MaxRetries == 5

\* the shapes createShapeId names for the run
MarkId(i) == [kind |-> "error-mark", index |-> i]
SuggestionId(i) == [kind |-> "suggestion-text", index |-> i]
EarlierMarkId == [kind |-> "error-mark", index |-> 0]

\* what analyzeHandwritingErrors resolves with: it catches every failure of the
\* service call and every exception on the data returned, and answers success false
AnalysisResponses ==
  {[success |-> FALSE, error |-> [message |-> MsgExternal], result |-> Undefined]}
  \cup {[success |-> TRUE, error |-> Undefined,
         result |-> [hasErrors |-> n > 0, results |-> [i \in 1..n |-> i]]] :
           n \in 0..MaxRunErrors}

\* errorAnalysisResult?.result?.hasErrors
hasErrorsOf(errorAnalysisResult) ==
  /\ errorAnalysisResult.result # Undefined
  /\ errorAnalysisResult.result.hasErrors

\* the recognition call of an initialised session at the await of the analysis
RunCall ==
  [RecogStart(EarlierSession,
              [UnusedCall EXCEPT !.fn = "processSelectedShapes",
                                 !.seen = ClosureOf(EarlierSession),
                                 !.session = ClosureOf(EarlierSession)]).call
     EXCEPT !.pc = "analysis",
            !.ocrResult = [recognised |-> preprocessImage([pixels |-> EarlierBlob]),
                           originalImage |-> [pixels |-> EarlierBlob]]]

\* the states of the proxy element and of the selection a lookup can meet
RunImages ==
  {NoImg,
   [src |-> ImageOf(EarlierBlob, 0), current |-> ImageOf(EarlierBlob, 0),
    loading |-> FALSE, handlers |-> 0]}
RunSelections == {sel \in SelectionChoices : sel.shapeIds # {}}

\* the lookups of getImageData of one attempt
ImageDataChoices ==
  {getImageData(image, sel, FALSE) : image \in RunImages, sel \in RunSelections}

\* lookup is what the last call of getImageData gave, imageData the geometry the
\* errors were mapped with
\* the state of the hook the run works on
RunState(marks) ==
  [isProcessing |-> TRUE, lastErrorAnalysis |-> Null, errorMarkShapeIds |-> marks,
   suggestionsVisible |-> FALSE, error |-> Null]

InitRun ==
  /\ HookIdle
  /\ \E marks \in {<<>>, <<EarlierMarkId>>} :
       /\ pureIn = [call |-> RunCall, closure |-> [errorMarkShapeIds |-> marks]]
       /\ pureOut = [pc |-> "analysis", state |-> RunState(marks),
                     canvas |-> {marks[i] : i \in 1..Len(marks)},
                     errorAnalysisResult |-> Null, retryCount |-> 0, lookup |-> Null,
                     imageData |-> Null,
                     created |-> {}, toasts |-> {}, timer |-> "none", ret |-> Null]

\* the condition of the while loop
retryUnbounded(imageData, retryCount) == imageData = Null
retryAgain(imageData, retryCount) == imageData = Null /\ retryCount < MaxRetries

\* from the end of the analysis block to the return: the final updateOCRState, the
\* timer of the suggestions, the toast of the result
finishRun(run, errorAnalysisResult, errorMarkShapeIds) ==
  [run EXCEPT
     !.pc = "returned",
     !.state = updateOCRState(run.state,
                 [lastErrorAnalysis |-> errorAnalysisResult,
                  errorMarkShapeIds |-> errorMarkShapeIds,
                  suggestionsVisible |-> FALSE,
                  isProcessing |-> FALSE]),
     !.timer = IF hasErrorsOf(errorAnalysisResult) THEN "set" ELSE "none",
     !.toasts = run.toasts \cup (IF errorAnalysisResult.result # Undefined
                                  THEN {"error-analysis-result"} ELSE {}),
     !.ret = [success |-> TRUE, error |-> Undefined, result |-> pureIn.call.ocrResult]]

\* markErrorsWithAnimation and the state update that follows it: one mark for each
\* error, recorded behind the errorMarkShapeIds the callback holds
marksOf(results) == [i \in 1..Len(results) |-> MarkId(i)]

markErrors(run, imageData) ==
  [run EXCEPT
     !.imageData = imageData,
     !.canvas = run.canvas \cup {MarkId(i) : i \in 1..Len(run.errorAnalysisResult.result.results)},
     !.created = run.created \cup {MarkId(i) : i \in 1..Len(run.errorAnalysisResult.result.results)},
     !.state = updateOCRState(run.state,
                 [lastErrorAnalysis |-> [success |-> TRUE,
                                         result |-> run.errorAnalysisResult.result],
                  errorMarkShapeIds |-> pureIn.closure.errorMarkShapeIds
                                          \o marksOf(run.errorAnalysisResult.result.results)])]

\* the geometry the mapping works with once the loop has ended
geometryAfterLoop(imageData) ==
  IF imageData # Null THEN imageData ELSE standardImageData(pureIn.call)

markAndFinish(run, imageData) ==
  finishRun(markErrors(run, geometryAfterLoop(imageData)), run.errorAnalysisResult,
            marksOf(run.errorAnalysisResult.result.results))

\* analyzeHandwritingErrors settles
RunAnalysisSettles ==
  /\ pureOut.pc = "analysis"
  /\ \E response \in AnalysisResponses :
       pureOut' =
         IF response.success /\ response.result.hasErrors
         THEN [pureOut EXCEPT !.pc = "saveAnalysis", !.errorAnalysisResult = response]
         ELSE finishRun([pureOut EXCEPT
                           !.errorAnalysisResult = response,
                           !.toasts = IF response.success
                                      THEN {"no-errors-found"} ELSE {}],
                        response, <<>>)
  /\ UNCHANGED <<hookVars, pureIn>>

\* saveErrorAnalysisToDataDirectory settles (a failure is only logged); then the
\* first lookup of the DOM geometry
RunSaveAnalysisSettles ==
  /\ pureOut.pc = "saveAnalysis"
  /\ \E imageData \in ImageDataChoices :
       pureOut' = IF retryAgain(imageData, 0)
                  THEN [pureOut EXCEPT !.pc = "retry", !.lookup = imageData]
                  ELSE markAndFinish([pureOut EXCEPT !.lookup = imageData], imageData)
  /\ UNCHANGED <<hookVars, pureIn>>

\* the 100 ms of a turn of the loop have passed: the lookup again, retryCount++
RunRetryElapsed ==
  /\ pureOut.pc = "retry"
  /\ \E imageData \in ImageDataChoices :
       pureOut' = IF retryAgain(imageData, pureOut.retryCount + 1)
                  THEN [pureOut EXCEPT !.retryCount = pureOut.retryCount + 1,
                                       !.lookup = imageData]
                  ELSE markAndFinish([pureOut EXCEPT !.retryCount = pureOut.retryCount + 1,
                                                     !.lookup = imageData],
                                     imageData)
  /\ UNCHANGED <<hookVars, pureIn>>

\* the callback of setTimeout(..., 1800): one text shape for each error, recorded
\* behind the errorMarkShapeIds the callback holds
RunTimerFires ==
  /\ pureOut.timer = "set"
  /\ pureOut' =
       [pureOut EXCEPT
          !.timer = "fired",
          !.canvas = pureOut.canvas
                       \cup {SuggestionId(i) :
                               i \in 1..Len(pureOut.errorAnalysisResult.result.results)},
          !.created = pureOut.created
                        \cup {SuggestionId(i) :
                                i \in 1..Len(pureOut.errorAnalysisResult.result.results)},
          !.state = updateOCRState(pureOut.state,
                      [suggestionsVisible |-> TRUE,
                       errorMarkShapeIds |->
                         pureIn.closure.errorMarkShapeIds
                           \o [i \in 1..Len(pureOut.errorAnalysisResult.result.results)
                                 |-> SuggestionId(i)]]),
          !.toasts = pureOut.toasts \cup {"smart-suggestions-shown"}]
  /\ UNCHANGED <<hookVars, pureIn>>

\* clearErrorMarksFromCanvas, called once the run and its timer are over
RunClearErrorMarks ==
  /\ pureOut.pc = "returned"
  /\ pureOut.timer # "set"
  /\ Len(pureOut.state.errorMarkShapeIds) > 0
  /\ pureOut' =
       [pureOut EXCEPT
          !.pc = "cleared",
          !.canvas = pureOut.canvas
                       \ {pureOut.state.errorMarkShapeIds[i] :
                             i \in 1..Len(pureOut.state.errorMarkShapeIds)},
          !.state = updateOCRState(pureOut.state, [errorMarkShapeIds |-> <<>>]),
          !.toasts = pureOut.toasts \cup {"error-marks-cleared"}]
  /\ UNCHANGED <<hookVars, pureIn>>

NextRun ==
  \/ RunAnalysisSettles
  \/ RunSaveAnalysisSettles
  \/ RunRetryElapsed
  \/ RunTimerFires
  \/ RunClearErrorMarks

SpecRun == InitRun /\ [][NextRun]_vars

InRun == pureOut # Null /\ "closure" \in DOMAIN pureIn
AnalysisFailed ==
  /\ pureOut.errorAnalysisResult # Null
  /\ ~pureOut.errorAnalysisResult.success

\* C23: when the error analysis of a recognition run fails (the service call fails
\* or the data it returns is malformed), processSelectedShapes returns success =
\* false with the message of the error.
C23_AnalysisFailureAbortsRun ==
  (InRun /\ AnalysisFailed /\ pureOut.ret # Null) =>
    /\ ~pureOut.ret.success
    /\ pureOut.ret.error = pureOut.errorAnalysisResult.error

\* C26: the lookup of the DOM geometry in the recognition phase is a bounded retry
\* loop: getImageData is tried again at most MaxRetries times, and when it still gives
\* nothing the run goes on with the geometry made of the selection bounds of the
\* initialization data and the size of the image the OCR worked on.
C26_GeometryRetryIsBounded ==
  InRun =>
    /\ pureOut.retryCount \in 0..MaxRetries
    /\ pureOut.pc = "retry" => pureOut.lookup = Null /\ pureOut.retryCount < MaxRetries
    /\ (pureOut.imageData # Null /\ pureOut.lookup = Null) =>
         /\ pureOut.retryCount = MaxRetries
         /\ pureOut.imageData.rect = EarlierSession.initializationData.selectionBounds
         /\ pureOut.imageData.natural = pureIn.call.ocrResult.originalImage.pixels
    /\ (pureOut.imageData # Null /\ pureOut.lookup # Null) =>
         pureOut.imageData = pureOut.lookup

C26_Witness ==
  /\ InRun
  /\ pureOut.pc = "returned"
  /\ pureOut.lookup = Null
  /\ pureOut.retryCount = MaxRetries
  /\ pureOut.imageData # Null
  /\ Len(pureOut.state.errorMarkShapeIds) = MaxRunErrors

RecordedIds == {pureOut.state.errorMarkShapeIds[i] : i \in 1..Len(pureOut.state.errorMarkShapeIds)}

\* C28: once a recognition run and the delayed step of its suggestions are both over,
\* errorMarkShapeIds holds the id of every error mark and of every suggestion text
\* the run created, so that clearErrorMarksFromCanvas called next deletes them all.
C28_ClearDeletesEveryShapeOfTheRun ==
  InRun =>
    /\ (pureOut.pc = "returned" /\ pureOut.timer # "set") => pureOut.created \subseteq RecordedIds
    /\ pureOut.pc = "cleared" => pureOut.canvas \cap pureOut.created = {}

\* ---------------------------------------------------------------------------
\* The camera of the editor and the page boxes of a recognition run: two runs of
\* the same session side by side, each with a camera of its own in each phase.
\* ---------------------------------------------------------------------------
Cameras ==
  {[x |-> FromInt(0), y |-> FromInt(0), z |-> FromInt(1)],
   [x |-> FromInt(-50), y |-> FromInt(30), z |-> FromInt(2)],
   [x |-> FromInt(120), y |-> FromInt(0), z |-> Half]}
CameraSelectionBounds == Box(100, 50, 300, 150)
CameraLaterSelections == {CameraSelectionBounds, Box(80, 40, 360, 180)}
CameraMetadata == [imageWidth |-> FromInt(900), imageHeight |-> FromInt(450)]
CameraErrors ==
  <<[id |-> "c001", bbox |-> Box(90, 45, 30, 45)],
    [id |-> "c002", bbox |-> Box(7, 3, 5, 11)]>>

\* img.style.left/top/width/height: the selection bounds on the screen of the moment
proxyStyle(selectionBounds, camera) ==
  [left |-> FMul(FSub(selectionBounds.x, camera.x), camera.z),
   top |-> FMul(FSub(selectionBounds.y, camera.y), camera.z),
   width |-> FMul(selectionBounds.w, camera.z),
   height |-> FMul(selectionBounds.h, camera.z)]

\* the proxy element initializeOCR creates and places
proxyElement(selectionBounds, camera, complete) ==
  [style |-> proxyStyle(selectionBounds, camera), complete |-> complete,
   naturalWidth |-> CameraMetadata.imageWidth,
   naturalHeight |-> CameraMetadata.imageHeight]

\* a lookup that takes the rectangle of the element on the screen
domImageDataOnScreen(editor, element) ==
  IF ~element.complete THEN Null
  ELSE [rect |-> [x |-> element.style.left, y |-> element.style.top,
                  width |-> element.style.width, height |-> element.style.height],
        naturalWidth |-> element.naturalWidth, naturalHeight |-> element.naturalHeight]

\* getImageData in numbers: the rectangle is editor.getSelectionPageBounds(), page
\* coordinates that the editor keeps apart from its camera
domImageData(editor, element) ==
  IF ~element.complete THEN Null
  ELSE IF editor.selectionPageBounds # Null
  THEN [rect |-> [x |-> editor.selectionPageBounds.x, y |-> editor.selectionPageBounds.y,
                  width |-> editor.selectionPageBounds.w,
                  height |-> editor.selectionPageBounds.h],
        naturalWidth |-> element.naturalWidth, naturalHeight |-> element.naturalHeight]
  ELSE Null

\* the standardImageData literal in numbers
standardImageDataOf(selectionBounds, metadata) ==
  [rect |-> [x |-> selectionBounds.x, y |-> selectionBounds.y,
             width |-> selectionBounds.w, height |-> selectionBounds.h],
   naturalWidth |-> metadata.imageWidth, naturalHeight |-> metadata.imageHeight]

cameraGeometry(imageData, selectionBounds, metadata) ==
  IF imageData # Null THEN imageData ELSE standardImageDataOf(selectionBounds, metadata)

\* { ...error, bbox: mappedBox, center: mappedBox.x + mappedBox.w / 2, ... }
pageAnnotation(error, mappedBox) ==
  [id |-> error.id, bbox |-> XYWH(mappedBox),
   center |-> [x |-> FAdd(mappedBox.x, FDiv(mappedBox.w, FromInt(2))),
               y |-> FAdd(mappedBox.y, FDiv(mappedBox.h, FromInt(2)))]]

pageAnnotations(errors, imageData) ==
  [i \in 1..Len(errors) |->
     pageAnnotation(errors[i],
                    pixelBoxToPageBox([id |-> errors[i].id, x |-> errors[i].bbox.x,
                                       y |-> errors[i].bbox.y, w |-> errors[i].bbox.w,
                                       h |-> errors[i].bbox.h], imageData))]

\* one run: the editor, the proxy element, the annotations returned
CameraRunAt(camera) ==
  [editor |-> [camera |-> camera, selectionPageBounds |-> CameraSelectionBounds],
   element |-> Null, annotations |-> <<>>]

InitCamera ==
  /\ HookIdle
  /\ pureIn \in {[cameras |-> <<[init |-> a1, recog |-> a2], [init |-> b1, recog |-> b2]>>,
                  complete |-> complete, laterSelection |-> sel] :
                   a1 \in Cameras, a2 \in Cameras, b1 \in Cameras, b2 \in Cameras,
                   complete \in BOOLEAN, sel \in CameraLaterSelections}
  /\ pureOut = [pc |-> "idle",
                runs |-> [k \in 1..2 |-> CameraRunAt(pureIn.cameras[k].init)]]

\* initializeOCR places the proxy element with the camera it reads
CameraInitialize ==
  /\ pureOut.pc = "idle"
  /\ pureOut' =
       [pc |-> "initialized",
        runs |-> [k \in 1..2 |->
                    [pureOut.runs[k] EXCEPT
                       !.element = proxyElement(CameraSelectionBounds,
                                                pureOut.runs[k].editor.camera,
                                                pureIn.complete)]]]
  /\ UNCHANGED <<hookVars, pureIn>>

\* between the phases the user pans, zooms and selects: the editor owns all three
CameraMoves ==
  /\ pureOut.pc = "initialized"
  /\ pureOut' =
       [pc |-> "moved",
        runs |-> [k \in 1..2 |->
                    [pureOut.runs[k] EXCEPT
                       !.editor = [camera |-> pureIn.cameras[k].recog,
                                   selectionPageBounds |-> pureIn.laterSelection]]]]
  /\ UNCHANGED <<hookVars, pureIn>>

\* the mapping of the errors in processSelectedShapes, then the effect on lastResult
\* that places the proxy element again
CameraRecognize ==
  /\ pureOut.pc = "moved"
  /\ pureOut' =
       [pc |-> "recognized",
        runs |-> [k \in 1..2 |->
                    [pureOut.runs[k] EXCEPT
                       !.annotations =
                          pageAnnotations(CameraErrors,
                            cameraGeometry(domImageData(pureOut.runs[k].editor,
                                                        pureOut.runs[k].element),
                                           CameraSelectionBounds, CameraMetadata)),
                       !.element.style = proxyStyle(CameraSelectionBounds,
                                                    pureOut.runs[k].editor.camera)]]]
  /\ UNCHANGED <<hookVars, pureIn>>

NextCamera ==
  \/ CameraInitialize
  \/ CameraMoves
  \/ CameraRecognize

SpecCamera == InitCamera /\ [][NextCamera]_vars

CameraRecognized ==
  pureOut # Null /\ "cameras" \in DOMAIN pureIn /\ pureOut.pc = "recognized"

\* C25: the page boxes of the annotations a recognition run returns do not depend on
\* the camera: two runs that differ only in the camera, at initialization and at
\* recognition, return the same annotations.
C25_PageBoxesIndependentOfCamera ==
  CameraRecognized => pureOut.runs[1].annotations = pureOut.runs[2].annotations

C25_Witness ==
  /\ CameraRecognized
  /\ pureIn.complete
  /\ pureIn.cameras[1].init # pureIn.cameras[2].init
  /\ pureIn.cameras[1].recog # pureIn.cameras[2].recog
  /\ pureIn.cameras[1].init # pureIn.cameras[1].recog
  /\ pureOut.runs[1].element.style # pureOut.runs[2].element.style
  /\ Len(pureOut.runs[1].annotations) = 2
  /\ pureIn.laterSelection # CameraSelectionBounds
  /\ pureOut.runs[1].annotations[1].bbox.x = FromInt(116)
====
